---- MODULE Spec2Model ----
(***************************************************************************)
(* Compliance rule-evaluation engine of devops-toolkit: policy catalog,    *)
(* the three checkers, the result filter, the check/report commands, and  *)
(* the pipeline trigger command's wait loop.                              *)
(***************************************************************************)
EXTENDS Integers, Sequences, FiniteSets, TLC

VARIABLES
    pc,          \* position of the command being executed
    opts,        \* CheckOptions of the invocation
    input,       \* filter engine: the list handed to filterResults
    once,        \* filter engine: filterResults(input)
    twice,       \* filter engine: filterResults(filterResults(input))
    given,       \* rule evaluation: the sub-check called and the resources it is handed
    emitted,     \* rule evaluation: the list one sub-check returned
    target,      \* check command: the target argument, lowered
    failOnWarn,  \* check command: the fail-on-warn flag
    calls,       \* check command: the checkers invoked so far, in order
    met,         \* check command: what each checker's provider answers in this run
    errs,        \* check command: whether each checker's Run returned an error
    conns,       \* check command: the provider client each checker's Run opened and left open
    parts,       \* check command: the list each checker's Run returned
    results,     \* check command: the merged result list
    exit,        \* check command: "none" while running, then "ok" or "error"
    shown,       \* check command: the summary displayResults prints
    includePassed, \* report command: the include-passed flag
    returned,    \* report command: the list the checkers returned
    junit,       \* report command: the JUnit document rendered from the report
    report,      \* report command: the ReportSummary built from results
    remote,      \* trigger command: the status the server holds for the pipeline
    waiting      \* trigger command: the wait flag and what WaitForPipeline did so far

vars == <<pc, opts, input, once, twice, given, emitted, target, failOnWarn, calls, met,
          errs, conns, parts, results, exit, shown, includePassed, returned, junit, report,
          remote, waiting>>

filterVars == <<input, once, twice>>
ruleVars == <<given, emitted>>
runVarsButResults == <<target, failOnWarn, calls, met, errs, conns, parts, exit, shown>>
runVarsButExit == <<target, failOnWarn, calls, met, errs, conns, parts, results, shown>>
runVars == <<target, failOnWarn, calls, met, errs, conns, parts, results, exit, shown>>
reportVars == <<includePassed, returned, junit, report>>
pipelineVars == <<remote, waiting>>

----------------------------------------------------------------------------
(* Bounds *)

\* longest result list handed to the filter engine
MaxLen == 3
\* longest skip-list / only-list
MaxRules == 1
\* most containers of one pod or one manifest
MaxContainers == 1
\* most lines of one build file
MaxLines == 2
\* most namespaces, role bindings, compose services, exposed ports of one query
MaxEntries == 1
\* the status queries of one wait that are counted; later ones leave the count
MaxPolls == 3

\* all sequences over S of length 0..n
SeqsUpTo(S, n) == UNION {[1..k -> S] : k \in 0..n}

----------------------------------------------------------------------------
(* Result model: pkg/compliance/types.go *)

StatusPassed == "passed"
StatusFailed == "failed"
StatusSkipped == "skipped"

\* CheckResult (RuleName, Message and Remediation are texts no rule reads)
CheckResult(id, cat, sev, st, res) ==
    [rule_id |-> id, category |-> cat, severity |-> sev, status |-> st, resource |-> res]

\* CheckOptions
CheckOptions(ns, img, path, skip, only, minSev) ==
    [Namespace |-> ns, Image |-> img, Path |-> path,
     SkipRules |-> skip, OnlyRules |-> only, MinSeverity |-> minSev]

----------------------------------------------------------------------------
(* Policy catalog: pkg/compliance/policies.go *)

Policy(id, cat, sev) == [id |-> id, category |-> cat, severity |-> sev]

GetBuiltinPolicies == <<
    Policy("K8S-SEC-001", "Kubernetes Security", "critical"),
    Policy("K8S-SEC-002", "Kubernetes Security", "high"),
    Policy("K8S-SEC-003", "Kubernetes Security", "medium"),
    Policy("K8S-SEC-004", "Kubernetes Security", "high"),
    Policy("K8S-SEC-005", "Kubernetes Security", "high"),
    Policy("K8S-IMG-001", "Kubernetes Best Practices", "medium"),
    Policy("K8S-PROBE-001", "Kubernetes Best Practices", "medium"),
    Policy("K8S-PROBE-002", "Kubernetes Best Practices", "medium"),
    Policy("K8S-RES-001", "Kubernetes Resources", "medium"),
    Policy("K8S-RES-002", "Kubernetes Resources", "high"),
    Policy("K8S-NET-001", "Kubernetes Network", "medium"),
    Policy("K8S-RBAC-001", "Kubernetes RBAC", "high"),
    Policy("DOCKER-SEC-001", "Docker Security", "critical"),
    Policy("DOCKER-SEC-002", "Docker Security", "high"),
    Policy("DOCKER-SEC-003", "Docker Security", "high"),
    Policy("DOCKER-SEC-004", "Docker Security", "high"),
    Policy("DOCKER-SEC-005", "Docker Security", "high"),
    Policy("DOCKER-SEC-006", "Docker Security", "medium"),
    Policy("DOCKER-RES-001", "Docker Resources", "medium"),
    Policy("DOCKER-RES-002", "Docker Resources", "low"),
    Policy("DOCKER-CFG-001", "Docker Configuration", "low"),
    Policy("DOCKER-CFG-002", "Docker Configuration", "medium"),
    Policy("DOCKER-IMG-001", "Docker Images", "medium"),
    Policy("DOCKER-IMG-002", "Docker Images", "low"),
    Policy("DOCKER-IMG-003", "Docker Images", "medium"),
    Policy("FILE-K8S-001", "File Compliance", "medium"),
    Policy("FILE-K8S-002", "File Compliance", "medium"),
    Policy("FILE-K8S-003", "File Compliance", "high"),
    Policy("FILE-DOCKER-003", "File Compliance", "high"),
    Policy("FILE-DOCKER-004", "File Compliance", "medium"),
    Policy("FILE-COMPOSE-001", "File Compliance", "critical") >>

----------------------------------------------------------------------------
(* Filter engine: K8sChecker.filterResults, meetsMinSeverity *)

levels == [low |-> 1, medium |-> 2, high |-> 3, critical |-> 4]

Level_unknownHighest(s) == IF s \in DOMAIN levels THEN levels[s] ELSE 5

\* a Go map lookup: the zero value for a key the map does not hold
Level(s) == IF s \in DOMAIN levels THEN levels[s] ELSE 0

meetsMinSeverity_noOrder(severity, minSeverity) == Level(severity) = Level(minSeverity)

meetsMinSeverity(severity, minSeverity) == Level(severity) >= Level(minSeverity)

\* the membership loops over SkipRules and OnlyRules
InRules(id, rules) == \E i \in 1..Len(rules) : rules[i] = id

\* one iteration of the loop body: TRUE when r reaches the append
Keeps_onlyFirst(o, r) ==
    /\ (Len(o.OnlyRules) > 0 => InRules(r.rule_id, o.OnlyRules))
    /\ (InRules(r.rule_id, o.SkipRules) => InRules(r.rule_id, o.OnlyRules))
    /\ ~(o.MinSeverity # "" /\ ~meetsMinSeverity(r.severity, o.MinSeverity))

Keeps(o, r) ==
    /\ ~InRules(r.rule_id, o.SkipRules)
    /\ (Len(o.OnlyRules) > 0 => InRules(r.rule_id, o.OnlyRules))
    /\ ~(o.MinSeverity # "" /\ ~meetsMinSeverity(r.severity, o.MinSeverity))

RECURSIVE FilterLoop_prepends(_, _, _, _)
FilterLoop_prepends(o, rs, i, filtered) ==
    IF i > Len(rs) THEN filtered
    ELSE FilterLoop_prepends(o, rs, i + 1,
                    IF Keeps(o, rs[i]) THEN <<rs[i]>> \o filtered ELSE filtered)

RECURSIVE FilterLoop(_, _, _, _)
FilterLoop(o, rs, i, filtered) ==
    IF i > Len(rs) THEN filtered
    ELSE FilterLoop(o, rs, i + 1,
                    IF Keeps(o, rs[i]) THEN Append(filtered, rs[i]) ELSE filtered)

NoControls(o) == Len(o.SkipRules) = 0 /\ Len(o.OnlyRules) = 0 /\ o.MinSeverity = ""

filterResults_dropsFirst(o, rs) ==
    IF NoControls(o) THEN (IF rs = <<>> THEN rs ELSE Tail(rs))
    ELSE FilterLoop(o, rs, 1, <<>>)

filterResults(o, rs) ==
    IF NoControls(o) THEN rs
    ELSE FilterLoop(o, rs, 1, <<>>)

----------------------------------------------------------------------------
(* Helpers for the checkers' loops *)

RECURSIVE Flatten(_)
Flatten(ss) == IF ss = <<>> THEN <<>> ELSE Head(ss) \o Flatten(Tail(ss))

\* the body of "if cond { results = append(results, r) }"
Emit(cond, r) == IF cond THEN <<r>> ELSE <<>>

\* strings the rules inspect are sequences of tokens, e.g. <<"myapp", ":", "latest">>
HasSuffixLatest(s) == Len(s) >= 2 /\ s[Len(s) - 1] = ":" /\ s[Len(s)] = "latest"

ContainsToken(s, t) == \E i \in 1..Len(s) : s[i] = t

\* strings.HasSuffix(image, ":latest") || !strings.Contains(image, ":")
LatestOrNoTag(image) == HasSuffixLatest(image) \/ ~ContainsToken(image, ":")

----------------------------------------------------------------------------
(* Cluster resource checker: K8sChecker in pkg/compliance/types.go *)

\* SecurityContext: nil tells a nil pointer; its *bool fields are "nil", "true", "false"
IsTrue(sc, field) == ~sc.nil /\ sc[field] = "true"

ContainerSecResults_noPass(resource, c) ==
    Emit(IsTrue(c.securityContext, "privileged"),
         CheckResult("K8S-SEC-001", "Kubernetes Security", "critical", StatusFailed, resource))
    \o Emit(~IsTrue(c.securityContext, "runAsNonRoot"),
         CheckResult("K8S-SEC-002", "Kubernetes Security", "high", StatusFailed, resource))
    \o Emit(~IsTrue(c.securityContext, "readOnlyRootFilesystem"),
         CheckResult("K8S-SEC-003", "Kubernetes Security", "medium", StatusFailed, resource))

\* checkPodSecurity, the per-container rules
ContainerSecResults(resource, c) ==
    << IF IsTrue(c.securityContext, "privileged")
       THEN CheckResult("K8S-SEC-001", "Kubernetes Security", "critical", StatusFailed, resource)
       ELSE CheckResult("K8S-SEC-001", "Kubernetes Security", "critical", StatusPassed, resource) >>
    \o Emit(~IsTrue(c.securityContext, "runAsNonRoot"),
         CheckResult("K8S-SEC-002", "Kubernetes Security", "high", StatusFailed, resource))
    \o Emit(~IsTrue(c.securityContext, "readOnlyRootFilesystem"),
         CheckResult("K8S-SEC-003", "Kubernetes Security", "medium", StatusFailed, resource))

PodResource(pod) == <<pod.namespace, "/", pod.name>>

PodSecResults(pod) ==
    Flatten([i \in 1..Len(pod.containers) |->
                ContainerSecResults(PodResource(pod), pod.containers[i])])
    \o Emit(pod.hostNetwork,
         CheckResult("K8S-SEC-004", "Kubernetes Security", "high", StatusFailed, PodResource(pod)))
    \o Emit(pod.hostPID,
         CheckResult("K8S-SEC-005", "Kubernetes Security", "high", StatusFailed, PodResource(pod)))

checkPodSecurity(pods) == Flatten([i \in 1..Len(pods) |-> PodSecResults(pods[i])])

\* checkContainers, the per-container rules
ContainerBestPractice(resource, c) ==
    Emit(LatestOrNoTag(c.image),
         CheckResult("K8S-IMG-001", "Kubernetes Best Practices", "medium", StatusFailed, resource))
    \o Emit(c.pullAlways,
         CheckResult("K8S-IMG-002", "Kubernetes Best Practices", "low", StatusPassed, resource))
    \o Emit(~c.livenessProbe,
         CheckResult("K8S-PROBE-001", "Kubernetes Best Practices", "medium", StatusFailed, resource))
    \o Emit(~c.readinessProbe,
         CheckResult("K8S-PROBE-002", "Kubernetes Best Practices", "medium", StatusFailed, resource))

checkContainers(pods) ==
    Flatten([i \in 1..Len(pods) |->
        Flatten([j \in 1..Len(pods[i].containers) |->
            ContainerBestPractice(PodResource(pods[i]), pods[i].containers[j])])])

\* checkResourceLimits, the per-container rules; a quantity is its IsZero()
ContainerLimits(resource, c) ==
    Emit(c.cpuLimitZero,
         CheckResult("K8S-RES-001", "Kubernetes Resources", "medium", StatusFailed, resource))
    \o Emit(c.memLimitZero,
         CheckResult("K8S-RES-002", "Kubernetes Resources", "high", StatusFailed, resource))
    \o Emit(c.cpuRequestZero,
         CheckResult("K8S-RES-003", "Kubernetes Resources", "low", StatusFailed, resource))
    \o Emit(c.memRequestZero,
         CheckResult("K8S-RES-004", "Kubernetes Resources", "low", StatusFailed, resource))

checkResourceLimits(pods) ==
    Flatten([i \in 1..Len(pods) |->
        Flatten([j \in 1..Len(pods[i].containers) |->
            ContainerLimits(PodResource(pods[i]), pods[i].containers[j])])])

\* strings.HasPrefix(ns.Name, "kube-") over the namespace names of the model
SystemNamespaces == {"kube-system", "kube-public"}

NamespaceResults_noSystemSkip(o, ns) ==
    IF o.Namespace # "" /\ ns.name # o.Namespace THEN <<>>
    ELSE IF ns.policies = -1 THEN <<>>
    ELSE IF ns.policies = 0
         THEN <<CheckResult("K8S-NET-001", "Kubernetes Network", "medium", StatusFailed, <<ns.name>>)>>
         ELSE <<CheckResult("K8S-NET-001", "Kubernetes Network", "medium", StatusPassed, <<ns.name>>)>>

\* a namespace entry: its name and the outcome of listing its network policies,
\* -1 for a failed query, else the number of policies
NamespaceResults(o, ns) ==
    IF ns.name \in SystemNamespaces THEN <<>>
    ELSE IF o.Namespace # "" /\ ns.name # o.Namespace THEN <<>>
    ELSE IF ns.policies = -1 THEN <<>>
    ELSE IF ns.policies = 0
         THEN <<CheckResult("K8S-NET-001", "Kubernetes Network", "medium", StatusFailed, <<ns.name>>)>>
         ELSE <<CheckResult("K8S-NET-001", "Kubernetes Network", "medium", StatusPassed, <<ns.name>>)>>

checkNetworkPolicies(o, namespaces) ==
    Flatten([i \in 1..Len(namespaces) |-> NamespaceResults(o, namespaces[i])])

\* strings.HasPrefix(binding.Name, "system:") is the binding's field system
BindingResults(b) ==
    Emit(b.roleRef = "cluster-admin" /\ ~b.system,
         CheckResult("K8S-RBAC-001", "Kubernetes RBAC", "high", StatusFailed, <<b.name>>))

checkRBAC(bindings) == Flatten([i \in 1..Len(bindings) |-> BindingResults(bindings[i])])

\* Pods(c.opts.Namespace).List: the pods of the namespace, every pod when it is ""
PodsOf(o, pods) ==
    SelectSeq(pods, LAMBDA p : o.Namespace = "" \/ p.namespace = o.Namespace)

K8sRun_abortsOnFailure(o, w) ==
    IF ~w.config \/ w.fail # {} THEN [results |-> <<>>, err |-> TRUE]
    ELSE [results |-> filterResults(o,
                      checkPodSecurity(PodsOf(o, w.pods))
                   \o checkContainers(PodsOf(o, w.pods))
                   \o checkResourceLimits(PodsOf(o, w.pods))
                   \o checkNetworkPolicies(o, w.namespaces)
                   \o checkRBAC(w.bindings)),
          err |-> FALSE]

\* K8sChecker.Run over a cluster w: w.config tells whether initClient succeeds,
\* w.fail names the sub-checks whose first query fails
K8sRun(o, w) ==
    IF ~w.config THEN [results |-> <<>>, err |-> TRUE]
    ELSE [results |-> filterResults(o,
                   (IF "pod" \in w.fail THEN <<>> ELSE checkPodSecurity(PodsOf(o, w.pods)))
                \o (IF "container" \in w.fail THEN <<>> ELSE checkContainers(PodsOf(o, w.pods)))
                \o (IF "resource" \in w.fail THEN <<>> ELSE checkResourceLimits(PodsOf(o, w.pods)))
                \o (IF "network" \in w.fail THEN <<>> ELSE checkNetworkPolicies(o, w.namespaces))
                \o (IF "rbac" \in w.fail THEN <<>> ELSE checkRBAC(w.bindings))),
          err |-> FALSE]

----------------------------------------------------------------------------
(* Container runtime checker: DockerChecker in pkg/completion/docker.go *)

isDangerousCap(cap) ==
    cap \in {"SYS_ADMIN", "SYS_PTRACE", "NET_ADMIN", "SYS_MODULE", "SYS_RAWIO",
             "SYS_BOOT", "MAC_ADMIN", "MAC_OVERRIDE"}

RootUser(user) == user = "" \/ user = "root" \/ user = "0"

\* the rules of one container; c.inspectErr: ContainerInspect failed (continue)
DockerContainerResults(c) ==
    IF c.inspectErr THEN <<>>
    ELSE
    << IF c.privileged
       THEN CheckResult("DOCKER-SEC-001", "Docker Security", "critical", StatusFailed, <<c.name>>)
       ELSE CheckResult("DOCKER-SEC-001", "Docker Security", "critical", StatusPassed, <<c.name>>) >>
    \o Emit((c.usernsMode = "" \/ c.usernsMode = "host") /\ RootUser(c.user),
         CheckResult("DOCKER-SEC-002", "Docker Security", "high", StatusFailed, <<c.name>>))
    \o Emit(c.networkMode = "host",
         CheckResult("DOCKER-SEC-003", "Docker Security", "high", StatusFailed, <<c.name>>))
    \o Emit(c.pidMode = "host",
         CheckResult("DOCKER-SEC-004", "Docker Security", "high", StatusFailed, <<c.name>>))
    \o Flatten([i \in 1..Len(c.capAdd) |->
         Emit(isDangerousCap(c.capAdd[i]),
           CheckResult("DOCKER-SEC-005", "Docker Security", "high", StatusFailed, <<c.name>>))])
    \o Emit(c.memory = 0,
         CheckResult("DOCKER-RES-001", "Docker Resources", "medium", StatusFailed, <<c.name>>))
    \o Emit(c.cpuQuota = 0 /\ c.nanoCPUs = 0,
         CheckResult("DOCKER-RES-002", "Docker Resources", "low", StatusFailed, <<c.name>>))
    \o Emit(c.restartPolicy = "" \/ c.restartPolicy = "no",
         CheckResult("DOCKER-CFG-001", "Docker Configuration", "low", StatusFailed, <<c.name>>))
    \o Emit(c.healthcheckTests = 0,
         CheckResult("DOCKER-CFG-002", "Docker Configuration", "medium", StatusFailed, <<c.name>>))
    \o Emit(~c.readonlyRootfs,
         CheckResult("DOCKER-SEC-006", "Docker Security", "medium", StatusFailed, <<c.name>>))

checkContainerSecurity_failedOnly(containers) ==
    SelectSeq(Flatten([i \in 1..Len(containers) |-> DockerContainerResults(containers[i])]),
              LAMBDA r : r.status = StatusFailed)

checkContainerSecurity(containers) ==
    Flatten([i \in 1..Len(containers) |-> DockerContainerResults(containers[i])])

MiB == 1024 * 1024

\* the first repo tag ending in ":latest" emits once (break)
checkImage(imageName, img) ==
    Emit(\E i \in 1..Len(img.repoTags) : HasSuffixLatest(img.repoTags[i]),
         CheckResult("DOCKER-IMG-001", "Docker Images", "medium", StatusFailed, imageName))
    \o Emit(img.size \div MiB > 1000,
         CheckResult("DOCKER-IMG-002", "Docker Images", "low", StatusFailed, imageName))
    \o Emit(RootUser(img.user),
         CheckResult("DOCKER-IMG-003", "Docker Images", "medium", StatusFailed, imageName))
    \o Flatten([i \in 1..Len(img.exposedPorts) |->
         Emit(img.exposedPorts[i] < 1024,
           CheckResult("DOCKER-IMG-004", "Docker Images", "low", StatusFailed, imageName))])

\* DockerChecker.Run over a runtime w: w.client tells whether the client is
\* built, w.listErr whether ContainerList fails, w.imageErr whether the image
\* inspection fails; w.exposedPorts is the map in its iteration order
DockerRun(o, w) ==
    IF ~w.client THEN [results |-> <<>>, err |-> TRUE]
    ELSE [results |->
                (IF w.listErr THEN <<>> ELSE checkContainerSecurity(w.containers))
             \o (IF o.Image # <<>> /\ ~w.imageErr THEN checkImage(o.Image, w.image) ELSE <<>>),
          err |-> FALSE]

\* the provider client of a checker run, as it stands when Run returns:
\* opened tells whether the run built one, open whether it is still unreleased.
\* K8sChecker.initClient stores the clientset in c.clientset; neither it nor
\* Run releases it on any return path
K8sClient(w) == [opened |-> w.config, open |-> w.config]

DockerClient_neverClosed(w) == [opened |-> w.client, open |-> w.client]

\* DockerChecker.Run: after NewClientWithOpts succeeds, defer cli.Close() runs
\* on every return path
DockerClient(w) == [opened |-> w.client, open |-> FALSE]

----------------------------------------------------------------------------
(* File checker: FileChecker in pkg/compliance/file_checker.go *)

\* a file f of the walk: f.path, f.base (base name), f.ext (lowered extension),
\* f.walkErr, f.isDir, f.readable, f.hasApiVersion / f.hasKind (the content
\* holds "apiVersion:" / "kind:"), f.yamlOk (yaml.Unmarshal succeeds),
\* f.manifest, f.services (the parsed document), f.lines (the text lines)

isKubernetesManifest(f) ==
    /\ f.ext \in {".yaml", ".yml"}
    /\ f.readable
    /\ f.hasApiVersion /\ f.hasKind

\* name == "Dockerfile" || strings.HasPrefix(name, "Dockerfile.")
isDockerfile(f) == f.base \in {"Dockerfile", "Dockerfile.dev"}

isDockerCompose(f) ==
    f.base \in {"docker-compose.yml", "docker-compose.yaml", "compose.yml", "compose.yaml"}

ManifestContainerResults_nilResourcesPass(resource, c) ==
    Emit(LatestOrNoTag(c.image),
         CheckResult("FILE-K8S-001", "File Compliance", "medium", StatusFailed, resource))
    \o Emit(c.resources = "nolimits",
         CheckResult("FILE-K8S-002", "File Compliance", "medium", StatusFailed, resource))
    \o Emit(~c.securityContext,
         CheckResult("FILE-K8S-003", "File Compliance", "high", StatusFailed, resource))
    \o Emit(~c.livenessProbe,
         CheckResult("FILE-K8S-004", "File Compliance", "medium", StatusFailed, resource))

\* the rules of one container entry of a manifest
ManifestContainerResults(resource, c) ==
    Emit(LatestOrNoTag(c.image),
         CheckResult("FILE-K8S-001", "File Compliance", "medium", StatusFailed, resource))
    \o Emit(c.resources \in {"nil", "nolimits"},
         CheckResult("FILE-K8S-002", "File Compliance", "medium", StatusFailed, resource))
    \o Emit(~c.securityContext,
         CheckResult("FILE-K8S-003", "File Compliance", "high", StatusFailed, resource))
    \o Emit(~c.livenessProbe,
         CheckResult("FILE-K8S-004", "File Compliance", "medium", StatusFailed, resource))

\* the pod spec the rules read: the top-level spec for a Pod or when it has no
\* template, else the template's spec; a spec m has m.nil and m.containers
PodSpecOf(m) ==
    IF m.kind # "Pod" /\ ~m.template.nil THEN m.template.spec ELSE m.spec

checkKubernetesManifest(f) ==
    IF ~f.readable \/ ~f.yamlOk THEN [results |-> <<>>, err |-> TRUE]
    ELSE IF f.manifest.kind \notin {"Deployment", "Pod", "StatefulSet", "DaemonSet"}
         THEN [results |-> <<>>, err |-> FALSE]
    ELSE IF f.manifest.spec.nil \/ PodSpecOf(f.manifest).nil
         THEN [results |-> <<>>, err |-> FALSE]
    ELSE [results |-> Flatten([i \in 1..Len(PodSpecOf(f.manifest).containers) |->
                        ManifestContainerResults(f.path, PodSpecOf(f.manifest).containers[i])]),
          err |-> FALSE]

\* strings.TrimSpace on a line of tokens
RECURSIVE TrimLeft(_)
TrimLeft(l) == IF l # <<>> /\ Head(l) = " " THEN TrimLeft(Tail(l)) ELSE l

RECURSIVE TrimRight(_)
TrimRight(l) ==
    IF l # <<>> /\ l[Len(l)] = " " THEN TrimRight(SubSeq(l, 1, Len(l) - 1)) ELSE l

TrimSpace(l) == TrimRight(TrimLeft(l))

\* strings.ToUpper on the instruction words of the model
ToUpper(t) ==
    CASE t = "from" -> "FROM"
      [] t = "user" -> "USER"
      [] t = "add" -> "ADD"
      [] t = "healthcheck" -> "HEALTHCHECK"
      [] OTHER -> t

\* strings.HasPrefix(upperLine, word + " ")
HasInstr(line, word) == Len(line) >= 2 /\ ToUpper(line[1]) = word /\ line[2] = " "

DockerfileLineResults_runOnly(resource, line) ==
    Emit(HasInstr(line, "ADD") /\ ~ContainsToken(line, "http") /\ ~ContainsToken(line, ".tar"),
         CheckResult("FILE-DOCKER-001", "File Compliance", "low", StatusFailed, resource))
    \o Emit(HasInstr(line, "RUN")
              /\ (ContainsToken(line, "curl") \/ ContainsToken(line, "wget"))
              /\ (~ContainsToken(line, "&&") \/ ~ContainsToken(line, "rm")),
         CheckResult("FILE-DOCKER-002", "File Compliance", "low", StatusFailed, resource))

\* the per-line findings of checkDockerfile, line already trimmed
DockerfileLineResults(resource, line) ==
    Emit(HasInstr(line, "ADD") /\ ~ContainsToken(line, "http") /\ ~ContainsToken(line, ".tar"),
         CheckResult("FILE-DOCKER-001", "File Compliance", "low", StatusFailed, resource))
    \o Emit((ContainsToken(line, "curl") \/ ContainsToken(line, "wget"))
              /\ (~ContainsToken(line, "&&") \/ ~ContainsToken(line, "rm")),
         CheckResult("FILE-DOCKER-002", "File Compliance", "low", StatusFailed, resource))

checkDockerfile_anyBase(f) ==
    IF ~f.readable THEN [results |-> <<>>, err |-> TRUE]
    ELSE LET lines == [i \in 1..Len(f.lines) |-> TrimSpace(f.lines[i])]
             hasUser == \E i \in 1..Len(lines) : HasInstr(lines[i], "USER")
             hasHealthcheck == \E i \in 1..Len(lines) : HasInstr(lines[i], "HEALTHCHECK")
             usesLatest == \E i \in 1..Len(lines) : HasInstr(lines[i], "FROM")
         IN [results |->
                 Flatten([i \in 1..Len(lines) |-> DockerfileLineResults(f.path, lines[i])])
                 \o Emit(~hasUser,
                      CheckResult("FILE-DOCKER-003", "File Compliance", "high", StatusFailed, f.path))
                 \o Emit(~hasHealthcheck,
                      CheckResult("FILE-DOCKER-004", "File Compliance", "medium", StatusFailed, f.path))
                 \o Emit(usesLatest,
                      CheckResult("FILE-DOCKER-005", "File Compliance", "medium", StatusFailed, f.path)),
             err |-> FALSE]

checkDockerfile(f) ==
    IF ~f.readable THEN [results |-> <<>>, err |-> TRUE]
    ELSE LET lines == [i \in 1..Len(f.lines) |-> TrimSpace(f.lines[i])]
             hasUser == \E i \in 1..Len(lines) : HasInstr(lines[i], "USER")
             hasHealthcheck == \E i \in 1..Len(lines) : HasInstr(lines[i], "HEALTHCHECK")
             usesLatest == \E i \in 1..Len(lines) :
                               HasInstr(lines[i], "FROM") /\ LatestOrNoTag(lines[i])
         IN [results |->
                 Flatten([i \in 1..Len(lines) |-> DockerfileLineResults(f.path, lines[i])])
                 \o Emit(~hasUser,
                      CheckResult("FILE-DOCKER-003", "File Compliance", "high", StatusFailed, f.path))
                 \o Emit(~hasHealthcheck,
                      CheckResult("FILE-DOCKER-004", "File Compliance", "medium", StatusFailed, f.path))
                 \o Emit(usesLatest,
                      CheckResult("FILE-DOCKER-005", "File Compliance", "medium", StatusFailed, f.path)),
             err |-> FALSE]

ComposeServiceResults_untaggedPasses(resource, svc) ==
    Emit(svc.privileged = "true",
         CheckResult("FILE-COMPOSE-001", "File Compliance", "critical", StatusFailed, resource))
    \o Emit(svc.network_mode = "host",
         CheckResult("FILE-COMPOSE-002", "File Compliance", "high", StatusFailed, resource))
    \o Emit(~svc.restart /\ ~svc.deploy,
         CheckResult("FILE-COMPOSE-003", "File Compliance", "low", StatusFailed, resource))
    \o Emit(svc.hasImage /\ HasSuffixLatest(svc.image),
         CheckResult("FILE-COMPOSE-004", "File Compliance", "medium", StatusFailed, resource))

\* the rules of one compose service; privileged and network_mode are "absent"
\* or the value, image is the tokens of the name when hasImage
ComposeServiceResults(resource, svc) ==
    Emit(svc.privileged = "true",
         CheckResult("FILE-COMPOSE-001", "File Compliance", "critical", StatusFailed, resource))
    \o Emit(svc.network_mode = "host",
         CheckResult("FILE-COMPOSE-002", "File Compliance", "high", StatusFailed, resource))
    \o Emit(~svc.restart /\ ~svc.deploy,
         CheckResult("FILE-COMPOSE-003", "File Compliance", "low", StatusFailed, resource))
    \o Emit(svc.hasImage /\ LatestOrNoTag(svc.image),
         CheckResult("FILE-COMPOSE-004", "File Compliance", "medium", StatusFailed, resource))

\* f.services is the services map in its iteration order
checkDockerCompose(f) ==
    IF ~f.readable \/ ~f.yamlOk THEN [results |-> <<>>, err |-> TRUE]
    ELSE [results |-> Flatten([i \in 1..Len(f.services) |->
                                  ComposeServiceResults(f.path, f.services[i])]),
          err |-> FALSE]

\* the walk callback for one entry
FileResults(f) ==
    IF f.walkErr \/ f.isDir THEN <<>>
    ELSE (IF isKubernetesManifest(f) THEN checkKubernetesManifest(f).results ELSE <<>>)
      \o (IF isDockerfile(f) THEN checkDockerfile(f).results ELSE <<>>)
      \o (IF isDockerCompose(f) THEN checkDockerCompose(f).results ELSE <<>>)

RECURSIVE FileRun_stopsAtError(_, _)
FileRun_stopsAtError(o, files) ==
    IF files = <<>> THEN [results |-> <<>>, err |-> FALSE]
    ELSE IF ~Head(files).walkErr /\ ~Head(files).isDir
            /\ (~Head(files).readable \/ ~Head(files).yamlOk)
         THEN [results |-> <<>>, err |-> TRUE]
         ELSE LET rest == FileRun_stopsAtError(o, Tail(files))
              IN [results |-> FileResults(Head(files)) \o rest.results, err |-> rest.err]

\* FileChecker.Run over the entries of the walk, in walk order; the callback
\* never returns an error, so neither does filepath.Walk
FileRun(o, files) ==
    [results |-> Flatten([i \in 1..Len(files) |-> FileResults(files[i])]), err |-> FALSE]

----------------------------------------------------------------------------
(* Filter engine applied to bounded inputs *)

Severities == {"low", "medium", "high", "critical"}

\* values of the variables a command does not use
NoParts == [k8s |-> <<>>, docker |-> <<>>, files |-> <<>>]
NoErrs == [k8s |-> FALSE, docker |-> FALSE, files |-> FALSE]
NoConns == [k8s |-> [opened |-> FALSE, open |-> FALSE],
            docker |-> [opened |-> FALSE, open |-> FALSE]]
NoMet == [k8s |-> [config |-> FALSE, fail |-> {}, pods |-> <<>>, namespaces |-> <<>>,
                   bindings |-> <<>>],
          docker |-> [client |-> FALSE, listErr |-> FALSE, imageErr |-> FALSE,
                      containers |-> <<>>,
                      image |-> [repoTags |-> <<>>, size |-> 0, user |-> "",
                                 exposedPorts |-> <<>>]],
          files |-> <<>>]
NoGiven == [check |-> "", arg |-> <<>>]
NoScore == [nan |-> FALSE, milli |-> 0]
NoReport == [Total |-> 0, Passed |-> 0, Failed |-> 0, Skipped |-> 0, Score |-> NoScore]
NoWaiting == [wait |-> FALSE, polls |-> 0, status |-> "", err |-> FALSE, outcome |-> ""]
NoJUnit == [tests |-> 0, failures |-> 0, suites |-> <<>>]
NoShown == [total |-> 0, passed |-> 0, failed |-> 0, warnings |-> 0, skipped |-> 0,
            printed |-> FALSE, score |-> NoScore]

\* one rule per severity, as the cluster checker emits them
FilterPool == {
    CheckResult("K8S-SEC-001", "Kubernetes Security", "critical", StatusFailed, <<"default", "/", "web">>),
    CheckResult("K8S-SEC-002", "Kubernetes Security", "high", StatusFailed, <<"default", "/", "web">>),
    CheckResult("K8S-SEC-003", "Kubernetes Security", "medium", StatusFailed, <<"default", "/", "web">>),
    CheckResult("K8S-RES-003", "Kubernetes Resources", "low", StatusFailed, <<"default", "/", "web">>) }

FilterIds == {r.rule_id : r \in FilterPool}

FilterOptions ==
    {CheckOptions("", <<>>, "", s, o, m) :
        s \in SeqsUpTo(FilterIds, MaxRules), o \in SeqsUpTo(FilterIds, MaxRules),
        m \in Severities \cup {""}}

InitFilter ==
    /\ pc = "input"
    /\ opts \in FilterOptions
    /\ input \in SeqsUpTo(FilterPool, MaxLen)
    /\ once = <<>>
    /\ twice = <<>>
    /\ emitted = <<>> /\ given = NoGiven
    /\ target = "" /\ failOnWarn = FALSE /\ calls = <<>> /\ parts = NoParts
    /\ met = NoMet /\ errs = NoErrs /\ conns = NoConns
    /\ remote = "" /\ waiting = NoWaiting
    /\ results = <<>> /\ exit = "none" /\ shown = NoShown
    /\ includePassed = TRUE /\ report = NoReport /\ returned = <<>> /\ junit = NoJUnit

FilterOnce ==
    /\ pc = "input"
    /\ once' = filterResults(opts, input)
    /\ pc' = "once"
    /\ UNCHANGED <<pipelineVars, opts, input, twice, ruleVars, runVars, reportVars>>

FilterTwice ==
    /\ pc = "once"
    /\ twice' = filterResults(opts, once)
    /\ pc' = "twice"
    /\ UNCHANGED <<pipelineVars, opts, input, once, ruleVars, runVars, reportVars>>

NextFilter == FilterOnce \/ FilterTwice

SpecFilter == InitFilter /\ [][NextFilter]_vars

----------------------------------------------------------------------------
(* Filter engine claims *)

\* C1: a result whose rule_id is in the skip-list is absent from the filtered
\* output even when the same rule_id is also in the only-list.
C1_SkipBeatsOnly ==
    pc \in {"once", "twice"} =>
        \A i \in 1..Len(once) : ~InRules(once[i].rule_id, opts.SkipRules)

C1_Witness ==
    /\ pc = "once"
    /\ \E i \in 1..Len(input) :
          /\ InRules(input[i].rule_id, opts.SkipRules)
          /\ InRules(input[i].rule_id, opts.OnlyRules)
    /\ Len(once) < Len(input)

\* the results of list that the skip-list and the only-list do not exclude
RECURSIVE NotExcluded(_, _)
NotExcluded(o, list) ==
    IF list = <<>> THEN <<>>
    ELSE LET r == Head(list)
             rest == NotExcluded(o, Tail(list))
         IN IF /\ ~InRules(r.rule_id, o.SkipRules)
               /\ (o.OnlyRules = <<>> \/ InRules(r.rule_id, o.OnlyRules))
            THEN <<r>> \o rest ELSE rest

RECURSIVE AtOrAbove(_, _)
AtOrAbove(m, list) ==
    IF list = <<>> THEN <<>>
    ELSE LET r == Head(list)
             rest == AtOrAbove(m, Tail(list))
         IN IF levels[r.severity] >= levels[m] THEN <<r>> \o rest ELSE rest

\* C2: with a minimum severity m set, the output keeps exactly the not
\* otherwise excluded results whose severity is at or above m on
\* low < medium < high < critical.
C2_MinSeverity ==
    (pc \in {"once", "twice"} /\ opts.MinSeverity \in Severities) =>
        once = AtOrAbove(opts.MinSeverity, NotExcluded(opts, input))

\* Scenario C: m = high over one critical, one high and one medium result
C2_Witness ==
    /\ pc = "once"
    /\ opts.MinSeverity = "high"
    /\ opts.SkipRules = <<>> /\ opts.OnlyRules = <<>>
    /\ {input[i].severity : i \in 1..Len(input)} = {"critical", "high", "medium"}
    /\ Len(input) = 3
    /\ Len(once) = 2
    /\ {once[i].severity : i \in 1..Len(once)} = {"critical", "high"}

\* the severity scale, lowest first
SeverityOrder == <<"low", "medium", "high", "critical">>

RankOfSeverity(sev) == CHOOSE k \in 1..Len(SeverityOrder) : SeverityOrder[k] = sev

\* the reference condition for keeping r under the configuration o
Reference(o, r) ==
    /\ r.rule_id \notin {o.SkipRules[i] : i \in 1..Len(o.SkipRules)}
    /\ (o.OnlyRules = <<>> \/ r.rule_id \in {o.OnlyRules[i] : i \in 1..Len(o.OnlyRules)})
    /\ (o.MinSeverity = "" \/ RankOfSeverity(r.severity) >= RankOfSeverity(o.MinSeverity))

\* C24: when at least one control is set, the output is the subsequence of
\* the input, in input order and with duplicates kept, of exactly the results
\* whose rule_id is not in the skip-list, is in the only-list when that is
\* not empty, and whose severity is at or above the minimum when one is set;
\* no result is added or modified.
C24_ReferenceFilter ==
    (pc \in {"once", "twice"} /\ ~NoControls(opts)) =>
        once = SelectSeq(input, LAMBDA r : Reference(opts, r))

\* a repeated result is kept twice, in place, around a dropped one
C24_Witness ==
    /\ pc = "once" /\ ~NoControls(opts)
    /\ Len(input) = 3 /\ input[1] = input[3] /\ input[1] # input[2]
    /\ once = <<input[1], input[3]>>

\* C3: filtering the already filtered list with the same configuration
\* yields the same list as filtering once.
C3_Idempotent == pc = "twice" => twice = once

C3_Witness == pc = "twice" /\ once # input /\ once # <<>> /\ twice = once

\* C4: with skip-list and only-list empty and no minimum severity the filter
\* returns the input list: same elements, same order, same length.
C4_NoOp ==
    (pc \in {"once", "twice"} /\ opts.SkipRules = <<>> /\ opts.OnlyRules = <<>>
        /\ opts.MinSeverity = "") => once = input

C4_Witness ==
    /\ pc = "once" /\ opts.SkipRules = <<>> /\ opts.OnlyRules = <<>>
    /\ opts.MinSeverity = "" /\ Len(input) = MaxLen /\ once = input

----------------------------------------------------------------------------
(* Filter engine applied to severity strings outside the four names *)

\* results with a severity of the map and with severities the map does not hold
SeverityPool == {
    CheckResult("K8S-SEC-001", "Kubernetes Security", "critical", StatusFailed, <<"default", "/", "web">>),
    CheckResult("K8S-RES-003", "Kubernetes Resources", "low", StatusFailed, <<"default", "/", "web">>),
    CheckResult("K8S-SEC-003", "Kubernetes Security", "info", StatusFailed, <<"default", "/", "web">>),
    CheckResult("K8S-SEC-002", "Kubernetes Security", "HIGH", StatusFailed, <<"default", "/", "web">>) }

SeverityIds == {"K8S-SEC-001", "K8S-SEC-003"}

\* the values of the min-severity flag: unset, two names of the map, two others
MinSeverities == {"", "low", "high", "urgent", "High"}

SeverityOptions ==
    {CheckOptions("", <<>>, "", s, o, m) :
        s \in SeqsUpTo(SeverityIds, MaxRules), o \in SeqsUpTo(SeverityIds, MaxRules),
        m \in MinSeverities}

InitSeverity ==
    /\ pc = "input"
    /\ opts \in SeverityOptions
    /\ input \in SeqsUpTo(SeverityPool, MaxLen)
    /\ once = <<>>
    /\ twice = <<>>
    /\ emitted = <<>> /\ given = NoGiven
    /\ target = "" /\ failOnWarn = FALSE /\ calls = <<>> /\ parts = NoParts
    /\ met = NoMet /\ errs = NoErrs /\ conns = NoConns
    /\ remote = "" /\ waiting = NoWaiting
    /\ results = <<>> /\ exit = "none" /\ shown = NoShown
    /\ includePassed = TRUE /\ report = NoReport /\ returned = <<>> /\ junit = NoJUnit

SpecSeverity == InitSeverity /\ [][NextFilter]_vars

\* C29: a result whose severity is not one of the four names is dropped
\* whenever a valid minimum severity is set; a minimum severity that is not
\* one of the four names drops no result on severity grounds, so the output
\* is what the skip-list and the only-list leave, and it still disables the
\* no-op fast path.
C29_UnknownSeverities ==
    pc \in {"once", "twice"} =>
        /\ opts.MinSeverity \in Severities =>
              \A i \in 1..Len(once) : once[i].severity \in Severities
        /\ opts.MinSeverity \notin Severities \cup {""} =>
              /\ ~NoControls(opts)
              /\ once = NotExcluded(opts, input)

C29_Witness ==
    /\ pc = "once"
    /\ opts.MinSeverity = "low" /\ opts.SkipRules = <<>> /\ opts.OnlyRules = <<>>
    /\ Len(input) = 2 /\ input[1].severity = "info" /\ input[2].severity = "low"
    /\ once = <<input[2]>>

----------------------------------------------------------------------------
(* Rule evaluation: each sub-check applied to bounded resources *)

Tri == {"nil", "true", "false"}

NilContext == [nil |-> TRUE, privileged |-> "nil", runAsNonRoot |-> "nil",
               readOnlyRootFilesystem |-> "nil"]

SecurityContexts ==
    {NilContext} \cup
    {[nil |-> FALSE, privileged |-> p, runAsNonRoot |-> r, readOnlyRootFilesystem |-> f] :
        p \in Tri, r \in Tri, f \in Tri}

Latest == <<"myapp", ":", "latest">>
NoTag == <<"redis">>
Pinned == <<"nginx", ":", "1.25">>
RegistryPort == <<"registry", ":", "5000", "/", "app">>
Images == {Latest, NoTag, Pinned, RegistryPort}

\* a container that violates no rule
GoodContainer ==
    [name |-> "app",
     securityContext |-> [nil |-> FALSE, privileged |-> "false", runAsNonRoot |-> "true",
                          readOnlyRootFilesystem |-> "true"],
     image |-> Pinned, pullAlways |-> FALSE, livenessProbe |-> TRUE, readinessProbe |-> TRUE,
     cpuLimitZero |-> FALSE, memLimitZero |-> FALSE,
     cpuRequestZero |-> FALSE, memRequestZero |-> FALSE]

SecContainers == {[GoodContainer EXCEPT !.securityContext = sc] : sc \in SecurityContexts}

PracticeContainers ==
    {[GoodContainer EXCEPT !.image = i, !.pullAlways = a, !.livenessProbe = l,
                           !.readinessProbe = r] :
        i \in Images, a \in BOOLEAN, l \in BOOLEAN, r \in BOOLEAN}

LimitContainers ==
    {[GoodContainer EXCEPT !.cpuLimitZero = a, !.memLimitZero = b,
                           !.cpuRequestZero = c, !.memRequestZero = d] :
        a \in BOOLEAN, b \in BOOLEAN, c \in BOOLEAN, d \in BOOLEAN}

PodsOver(containers) ==
    {[namespace |-> "default", name |-> "web", containers |-> cs,
      hostNetwork |-> hn, hostPID |-> hp] :
        cs \in SeqsUpTo(containers, MaxContainers), hn \in BOOLEAN, hp \in BOOLEAN}

NamespaceEntries ==
    {[name |-> n, policies |-> k] : n \in {"default", "prod", "kube-system"}, k \in {-1, 0, 2}}

BindingEntries ==
    {[name |-> "ops-admin", roleRef |-> "cluster-admin", system |-> FALSE],
     [name |-> "system:masters", roleRef |-> "cluster-admin", system |-> TRUE],
     [name |-> "viewers", roleRef |-> "view", system |-> FALSE]}

DockerContainers ==
    {[name |-> "web", inspectErr |-> ie, privileged |-> pr, usernsMode |-> um, user |-> u,
      networkMode |-> nm, pidMode |-> pm, capAdd |-> ca, memory |-> me, cpuQuota |-> cq,
      nanoCPUs |-> nc, restartPolicy |-> rp, healthcheckTests |-> hc, readonlyRootfs |-> ro] :
        ie \in BOOLEAN, pr \in BOOLEAN, um \in {"", "host", "private"},
        u \in {"", "root", "0", "app"}, nm \in {"host", "bridge"}, pm \in {"host", ""},
        ca \in {<<>>, <<"CHOWN">>, <<"SYS_ADMIN">>, <<"SYS_ADMIN", "NET_ADMIN">>},
        me \in {0, 512}, cq \in {0, 50000}, nc \in {0, 1000}, rp \in {"", "no", "always"},
        hc \in {0, 1}, ro \in BOOLEAN}

DockerImages ==
    {[repoTags |-> t, size |-> sz, user |-> u, exposedPorts |-> ps] :
        t \in {<<>>, <<Latest>>, <<Pinned>>, <<Pinned, Latest>>},
        sz \in {1000 * MiB, 1001 * MiB - 1, 1001 * MiB},
        u \in {"", "root", "0", "app"},
        ps \in SeqsUpTo({80, 1023, 1024, 8080}, MaxEntries)}

ManifestContainers ==
    {[image |-> i, resources |-> r, securityContext |-> sc, livenessProbe |-> l] :
        i \in Images \cup {<<>>}, r \in {"nil", "nolimits", "limits"},
        sc \in BOOLEAN, l \in BOOLEAN}

PodSpecs ==
    {[nil |-> TRUE, containers |-> <<>>]} \cup
    {[nil |-> FALSE, containers |-> cs] : cs \in SeqsUpTo(ManifestContainers, MaxContainers)}

NoSpec == [nil |-> TRUE, containers |-> <<>>]

Manifests ==
    {[kind |-> k, spec |-> sp, template |-> [nil |-> TRUE, spec |-> NoSpec]] :
        k \in {"Pod", "Service"}, sp \in PodSpecs}
    \cup
    {[kind |-> k, spec |-> [nil |-> FALSE, containers |-> <<>>],
      template |-> [nil |-> FALSE, spec |-> sp]] :
        k \in {"Deployment", "StatefulSet", "DaemonSet"}, sp \in PodSpecs}
    \cup
    {[kind |-> "Deployment", spec |-> sp, template |-> [nil |-> TRUE, spec |-> NoSpec]] :
        sp \in PodSpecs}

NoManifest == [kind |-> "", spec |-> NoSpec, template |-> [nil |-> TRUE, spec |-> NoSpec]]

BuildLines == {
    <<"FROM", " ", "ubuntu", ":", "22.04">>,
    <<"FROM", " ", "ubuntu", ":", "latest">>,
    <<"from", " ", "alpine">>,
    <<"USER", " ", "app">>,
    <<" ", "user", " ", "root">>,
    <<"USER", " ", "0">>,
    <<"HEALTHCHECK", " ", "CMD", " ", "true">>,
    <<"ADD", " ", "src", " ", "/app">>,
    <<"ADD", " ", "http", "://", "host", "/", "f">>,
    <<"ADD", " ", "rootfs", ".tar", " ", "/">>,
    <<"RUN", " ", "curl", " ", "url">>,
    <<"#", " ", "install", " ", "curl">>,
    <<"RUN", " ", "wget", " ", "url", " ", "&&", " ", "rm", " ", "f">>,
    <<"COPY", " ", "src", " ", "/app">> }

ComposeServices ==
    {[privileged |-> p, network_mode |-> n, restart |-> r, deploy |-> d,
      hasImage |-> hi, image |-> i] :
        p \in {"absent", "true", "false"}, n \in {"absent", "host", "bridge"},
        r \in BOOLEAN, d \in BOOLEAN, hi \in BOOLEAN, i \in {Latest, NoTag, Pinned}}

\* a regular, readable file that parses
File(path, base, ext, m, lines, services) ==
    [path |-> path, base |-> base, ext |-> ext, walkErr |-> FALSE, isDir |-> FALSE,
     readable |-> TRUE, hasApiVersion |-> m # NoManifest, hasKind |-> m # NoManifest,
     yamlOk |-> TRUE, manifest |-> m, lines |-> lines, services |-> services]

InitRules ==
    /\ pc = "rules"
    /\ opts \in {CheckOptions(ns, <<>>, "", <<>>, <<>>, "") : ns \in {"", "default"}}
    /\ emitted = <<>> /\ given = NoGiven
    /\ input = <<>> /\ once = <<>> /\ twice = <<>>
    /\ target = "" /\ failOnWarn = FALSE /\ calls = <<>> /\ parts = NoParts
    /\ met = NoMet /\ errs = NoErrs /\ conns = NoConns
    /\ remote = "" /\ waiting = NoWaiting
    /\ results = <<>> /\ exit = "none" /\ shown = NoShown
    /\ includePassed = TRUE /\ report = NoReport /\ returned = <<>> /\ junit = NoJUnit

EmitPodSecurity ==
    /\ pc = "rules"
    /\ \E p \in PodsOver(SecContainers) :
          /\ given' = [check |-> "checkPodSecurity", arg |-> <<p>>]
          /\ emitted' = checkPodSecurity(<<p>>)
    /\ pc' = "emitted"
    /\ UNCHANGED <<pipelineVars, opts, filterVars, runVars, reportVars>>

EmitContainers ==
    /\ pc = "rules"
    /\ \E p \in PodsOver(PracticeContainers) :
          /\ given' = [check |-> "checkContainers", arg |-> <<p>>]
          /\ emitted' = checkContainers(<<p>>)
    /\ pc' = "emitted"
    /\ UNCHANGED <<pipelineVars, opts, filterVars, runVars, reportVars>>

EmitResourceLimits ==
    /\ pc = "rules"
    /\ \E p \in PodsOver(LimitContainers) :
          /\ given' = [check |-> "checkResourceLimits", arg |-> <<p>>]
          /\ emitted' = checkResourceLimits(<<p>>)
    /\ pc' = "emitted"
    /\ UNCHANGED <<pipelineVars, opts, filterVars, runVars, reportVars>>

EmitNetworkPolicies ==
    /\ pc = "rules"
    /\ \E ns \in SeqsUpTo(NamespaceEntries, MaxEntries) :
          /\ given' = [check |-> "checkNetworkPolicies", arg |-> ns]
          /\ emitted' = checkNetworkPolicies(opts, ns)
    /\ pc' = "emitted"
    /\ UNCHANGED <<pipelineVars, opts, filterVars, runVars, reportVars>>

EmitRBAC ==
    /\ pc = "rules"
    /\ \E bs \in SeqsUpTo(BindingEntries, MaxEntries) :
          /\ given' = [check |-> "checkRBAC", arg |-> bs]
          /\ emitted' = checkRBAC(bs)
    /\ pc' = "emitted"
    /\ UNCHANGED <<pipelineVars, opts, filterVars, runVars, reportVars>>

EmitContainerSecurity ==
    /\ pc = "rules"
    /\ \E c \in DockerContainers :
          /\ given' = [check |-> "checkContainerSecurity", arg |-> <<c>>]
          /\ emitted' = checkContainerSecurity(<<c>>)
    /\ pc' = "emitted"
    /\ UNCHANGED <<pipelineVars, opts, filterVars, runVars, reportVars>>

EmitImage ==
    /\ pc = "rules"
    /\ \E img \in DockerImages :
          /\ given' = [check |-> "checkImage", arg |-> <<img>>]
          /\ emitted' = checkImage(Latest, img)
    /\ pc' = "emitted"
    /\ UNCHANGED <<pipelineVars, opts, filterVars, runVars, reportVars>>

EmitManifest ==
    /\ pc = "rules"
    /\ \E m \in Manifests :
          /\ given' = [check |-> "checkKubernetesManifest", arg |-> <<m>>]
          /\ emitted' = FileResults(File(<<"app.yaml">>, "app.yaml", ".yaml", m, <<>>, <<>>))
    /\ pc' = "emitted"
    /\ UNCHANGED <<pipelineVars, opts, filterVars, runVars, reportVars>>

EmitDockerfile ==
    /\ pc = "rules"
    /\ \E ls \in SeqsUpTo(BuildLines, MaxLines) :
          /\ given' = [check |-> "checkDockerfile", arg |-> ls]
          /\ emitted' = FileResults(File(<<"Dockerfile">>, "Dockerfile", "", NoManifest, ls, <<>>))
    /\ pc' = "emitted"
    /\ UNCHANGED <<pipelineVars, opts, filterVars, runVars, reportVars>>

EmitCompose ==
    /\ pc = "rules"
    /\ \E ss \in SeqsUpTo(ComposeServices, MaxEntries) :
          /\ given' = [check |-> "checkDockerCompose", arg |-> ss]
          /\ emitted' = FileResults(File(<<"compose.yaml">>, "compose.yaml", ".yaml", NoManifest, <<>>, ss))
    /\ pc' = "emitted"
    /\ UNCHANGED <<pipelineVars, opts, filterVars, runVars, reportVars>>

NextRules ==
    \/ EmitPodSecurity \/ EmitContainers \/ EmitResourceLimits \/ EmitNetworkPolicies
    \/ EmitRBAC \/ EmitContainerSecurity \/ EmitImage \/ EmitManifest \/ EmitDockerfile
    \/ EmitCompose

SpecRules == InitRules /\ [][NextRules]_vars

----------------------------------------------------------------------------
(* Aggregator: runCheck, runAllChecks, displayResults and runReport of the
   compliance command *)

Count(rs, st) == Cardinality({i \in 1..Len(rs) : rs[i].status = st})

\* float64(passed) / float64(denom) * 100 in thousandths of a percent; passed
\* never exceeds denom, so a zero denom is 0/0, which Go evaluates to NaN
Ratio(passed, denom) ==
    IF denom = 0 THEN [nan |-> TRUE, milli |-> 0]
    ELSE [nan |-> FALSE, milli |-> (passed * 100000) \div denom]

\* the summary section of displayResults
displayResults(rs) ==
    IF Len(rs) = 0 THEN NoShown
    ELSE LET passed == Count(rs, StatusPassed)
             failed == Cardinality({i \in 1..Len(rs) :
                          rs[i].status = StatusFailed /\ rs[i].severity \in {"high", "critical"}})
             warnings == Cardinality({i \in 1..Len(rs) :
                          rs[i].status = StatusFailed /\ rs[i].severity \notin {"high", "critical"}})
             skipped == Count(rs, StatusSkipped)
             total == passed + failed + warnings + skipped
         IN [total |-> total, passed |-> passed, failed |-> failed, warnings |-> warnings,
             skipped |-> skipped, printed |-> total > 0,
             score |-> IF total > 0 THEN Ratio(passed, total - skipped) ELSE NoScore]

\* the "Calculate summary" section of runReport
Summary_skippedUncounted(rs) ==
    [Total |-> Len(rs), Passed |-> Count(rs, StatusPassed), Failed |-> Count(rs, StatusFailed),
     Skipped |-> 0,
     Score |-> IF Len(rs) > 0 THEN Ratio(Count(rs, StatusPassed), Len(rs)) ELSE NoScore]

Summary(rs) ==
    [Total |-> Len(rs), Passed |-> Count(rs, StatusPassed), Failed |-> Count(rs, StatusFailed),
     Skipped |-> Count(rs, StatusSkipped),
     Score |-> IF Len(rs) > 0
               THEN Ratio(Count(rs, StatusPassed), Len(rs) - Count(rs, StatusSkipped))
               ELSE NoScore]

hasErrors_criticalOnly(rs) ==
    \E i \in 1..Len(rs) : rs[i].status = StatusFailed /\ rs[i].severity = "critical"

\* the exit status section of runCheck
hasErrors(rs) ==
    \E i \in 1..Len(rs) : rs[i].status = StatusFailed /\ rs[i].severity \in {"critical", "high"}

hasWarnings(rs) ==
    \E i \in 1..Len(rs) : rs[i].status = StatusFailed /\ rs[i].severity \notin {"critical", "high"}

----------------------------------------------------------------------------
(* The JUnit document: generateJUnitReport *)

\* the keys of the byCategory map
Categories(rs) == {rs[i].category : i \in 1..Len(rs)}

\* the orders in which a range over a map with the keys S can yield them
Orders(S) ==
    {order \in [1..Cardinality(S) -> S] :
        \A i, j \in 1..Cardinality(S) : i # j => order[i] # order[j]}

\* one <testcase>: its child element is <failure>, <skipped/> or none
Testcase(r) ==
    [name |-> r.rule_id, classname |-> r.resource,
     child |-> IF r.status = StatusFailed THEN "failure"
               ELSE IF r.status = StatusSkipped THEN "skipped" ELSE "none",
     type |-> IF r.status = StatusFailed THEN r.severity ELSE ""]

Suite_countsNotPassed(rs, category) ==
    LET mine == SelectSeq(rs, LAMBDA r : r.category = category)
    IN [name |-> category, tests |-> Len(mine),
        failures |-> Len(mine) - Count(mine, StatusPassed),
        testcases |-> [i \in 1..Len(mine) |-> Testcase(mine[i])]]

\* one <testsuite>: the results of the category in list order
Suite(rs, category) ==
    LET mine == SelectSeq(rs, LAMBDA r : r.category = category)
    IN [name |-> category, tests |-> Len(mine), failures |-> Count(mine, StatusFailed),
        testcases |-> [i \in 1..Len(mine) |-> Testcase(mine[i])]]

generateJUnitReport(summary, rs, order) ==
    [tests |-> summary.Total, failures |-> summary.Failed,
     suites |-> [k \in 1..Len(order) |-> Suite(rs, order[k])]]

----------------------------------------------------------------------------
(* The resources a check run meets *)

BadContainer ==
    [name |-> "app",
     securityContext |-> [nil |-> FALSE, privileged |-> "true", runAsNonRoot |-> "nil",
                          readOnlyRootFilesystem |-> "false"],
     image |-> Latest, pullAlways |-> TRUE, livenessProbe |-> FALSE, readinessProbe |-> FALSE,
     cpuLimitZero |-> TRUE, memLimitZero |-> TRUE,
     cpuRequestZero |-> TRUE, memRequestZero |-> TRUE]

BadPod == [namespace |-> "default", name |-> "web", containers |-> <<BadContainer>>,
           hostNetwork |-> TRUE, hostPID |-> TRUE]

GoodPod == [namespace |-> "prod", name |-> "api", containers |-> <<GoodContainer>>,
            hostNetwork |-> FALSE, hostPID |-> FALSE]

ClusterNamespaces == << [name |-> "kube-system", policies |-> 0],
                        [name |-> "default", policies |-> 0],
                        [name |-> "prod", policies |-> 2] >>

ClusterBindings == << [name |-> "system:masters", roleRef |-> "cluster-admin", system |-> TRUE],
                      [name |-> "ops-admin", roleRef |-> "cluster-admin", system |-> FALSE] >>

SubChecks == {"pod", "container", "resource", "network", "rbac"}

K8sWorlds ==
    {[config |-> FALSE, fail |-> {}, pods |-> <<>>, namespaces |-> <<>>, bindings |-> <<>>]}
    \cup
    {[config |-> TRUE, fail |-> f, pods |-> p, namespaces |-> ClusterNamespaces,
      bindings |-> ClusterBindings] :
        f \in {{}, SubChecks} \cup {{s} : s \in SubChecks},
        p \in {<<>>, <<BadPod>>, <<GoodPod, BadPod>>}}

BadDockerContainer ==
    [name |-> "db", inspectErr |-> FALSE, privileged |-> TRUE, usernsMode |-> "", user |-> "",
     networkMode |-> "host", pidMode |-> "host", capAdd |-> <<"SYS_ADMIN">>, memory |-> 0,
     cpuQuota |-> 0, nanoCPUs |-> 0, restartPolicy |-> "no", healthcheckTests |-> 0,
     readonlyRootfs |-> FALSE]

GoodDockerContainer ==
    [name |-> "web", inspectErr |-> FALSE, privileged |-> FALSE, usernsMode |-> "private",
     user |-> "app", networkMode |-> "bridge", pidMode |-> "", capAdd |-> <<>>, memory |-> 512,
     cpuQuota |-> 50000, nanoCPUs |-> 0, restartPolicy |-> "always", healthcheckTests |-> 1,
     readonlyRootfs |-> TRUE]

BadImage == [repoTags |-> <<Latest>>, size |-> 1001 * MiB, user |-> "root",
             exposedPorts |-> <<80>>]

DockerWorlds ==
    {[client |-> FALSE, listErr |-> FALSE, imageErr |-> FALSE, containers |-> <<>>,
      image |-> BadImage]}
    \cup
    {[client |-> TRUE, listErr |-> l, imageErr |-> e, containers |-> cs, image |-> BadImage] :
        l \in BOOLEAN, e \in BOOLEAN,
        cs \in {<<>>, <<BadDockerContainer>>, <<GoodDockerContainer, BadDockerContainer>>}}

BadManifest ==
    [kind |-> "Deployment", spec |-> [nil |-> FALSE, containers |-> <<>>],
     template |-> [nil |-> FALSE,
                   spec |-> [nil |-> FALSE,
                             containers |-> << [image |-> Latest, resources |-> "nil",
                                                securityContext |-> FALSE,
                                                livenessProbe |-> FALSE] >>]]]

ManifestFile == File(<<"deploy.yaml">>, "deploy.yaml", ".yaml", BadManifest, <<>>, <<>>)

BuildFile == File(<<"Dockerfile">>, "Dockerfile", "", NoManifest,
                  << <<"FROM", " ", "ubuntu", ":", "latest">>,
                     <<"ADD", " ", "src", " ", "/app">>,
                     <<"RUN", " ", "curl", " ", "url">> >>, <<>>)

ComposeFile == File(<<"compose.yaml">>, "compose.yaml", ".yaml", NoManifest, <<>>,
                    << [privileged |-> "true", network_mode |-> "host", restart |-> FALSE,
                        deploy |-> FALSE, hasImage |-> TRUE, image |-> NoTag] >>)

Directory == [File(<<"charts">>, "charts", "", NoManifest, <<>>, <<>>) EXCEPT !.isDir = TRUE]

Unreadable == [ManifestFile EXCEPT !.path = <<"secret.yaml">>, !.base = "secret.yaml",
                                   !.readable = FALSE]

\* a manifest that yaml.Unmarshal rejects, a build file os.ReadFile cannot read
Unparseable == [ManifestFile EXCEPT !.path = <<"broken.yaml">>, !.base = "broken.yaml",
                                    !.yamlOk = FALSE]

UnreadableBuild == [BuildFile EXCEPT !.path = <<"Dockerfile.dev">>, !.base = "Dockerfile.dev",
                                     !.readable = FALSE]

FileTrees == {<<>>, <<ManifestFile>>,
              <<Directory, Unreadable, BuildFile, ComposeFile, ManifestFile>>,
              <<BuildFile, Unparseable, UnreadableBuild, ManifestFile>>}

\* os.Lstat of the root fails for the empty path: the callback is called once
\* with the error and the walk ends
WalkEntries(path, tree) ==
    IF path = "" THEN <<[Directory EXCEPT !.walkErr = TRUE]>> ELSE tree

----------------------------------------------------------------------------
(* The check command: runCheck *)

Targets == {"k8s", "kubernetes", "docker", "files", "file", "all", "pods"}

RunRules == {<<>>, <<"K8S-SEC-001">>, <<"DOCKER-SEC-001">>, <<"FILE-K8S-001">>}

Init ==
    /\ pc = "start"
    /\ target \in Targets
    /\ opts \in {CheckOptions("", <<>>, "", s, o, m) :
                    s \in RunRules, o \in RunRules, m \in {"", "high"}}
    /\ failOnWarn \in BOOLEAN
    /\ calls = <<>> /\ parts = NoParts /\ met = NoMet /\ errs = NoErrs /\ conns = NoConns
    /\ remote = "" /\ waiting = NoWaiting
    /\ results = <<>> /\ exit = "none" /\ shown = NoShown
    /\ input = <<>> /\ once = <<>> /\ twice = <<>> /\ emitted = <<>> /\ given = NoGiven
    /\ includePassed = TRUE /\ report = NoReport /\ returned = <<>> /\ junit = NoJUnit

\* the end of a checker call in runCheck: err != nil returns the error
Checked(r) ==
    /\ results' = r.results
    /\ pc' = IF r.err THEN "done" ELSE "checked"
    /\ exit' = IF r.err THEN "error" ELSE exit

\* case "k8s", "kubernetes"
CheckK8s ==
    /\ pc = "start" /\ target \in {"k8s", "kubernetes"}
    /\ \E ns \in {"", "default"}, w \in K8sWorlds :
         LET o == [opts EXCEPT !.Namespace = ns]
             r == K8sRun(o, w)
         IN /\ opts' = o
            /\ met' = [met EXCEPT !.k8s = w]
            /\ errs' = [errs EXCEPT !.k8s = r.err]
            /\ conns' = [conns EXCEPT !.k8s = K8sClient(w)]
            /\ parts' = [parts EXCEPT !.k8s = r.results]
            /\ Checked(r)
    /\ calls' = Append(calls, "k8s")
    /\ UNCHANGED <<pipelineVars, target, failOnWarn, shown, filterVars, ruleVars, reportVars>>

\* case "docker"
CheckDocker ==
    /\ pc = "start" /\ target = "docker"
    /\ \E img \in {<<>>, Latest}, w \in DockerWorlds :
         LET o == [opts EXCEPT !.Image = img]
             r == DockerRun(o, w)
         IN /\ opts' = o
            /\ met' = [met EXCEPT !.docker = w]
            /\ errs' = [errs EXCEPT !.docker = r.err]
            /\ conns' = [conns EXCEPT !.docker = DockerClient(w)]
            /\ parts' = [parts EXCEPT !.docker = r.results]
            /\ Checked(r)
    /\ calls' = Append(calls, "docker")
    /\ UNCHANGED <<pipelineVars, target, failOnWarn, shown, filterVars, ruleVars, reportVars>>

\* case "files", "file"; the path flag defaults to "."
CheckFiles ==
    /\ pc = "start" /\ target \in {"files", "file"}
    /\ \E tree \in FileTrees :
         LET o == [opts EXCEPT !.Path = "."]
             r == FileRun(o, WalkEntries(o.Path, tree))
         IN /\ opts' = o
            /\ met' = [met EXCEPT !.files = tree]
            /\ errs' = [errs EXCEPT !.files = r.err]
            /\ conns' = conns
            /\ parts' = [parts EXCEPT !.files = r.results]
            /\ Checked(r)
    /\ calls' = Append(calls, "files")
    /\ UNCHANGED <<pipelineVars, target, failOnWarn, shown, filterVars, ruleVars, reportVars>>

\* case "all": runAllChecks, its three calls one after the other; the errors
\* are dropped and the options carry no namespace, image or path
AllK8s ==
    /\ pc = "start" /\ target = "all"
    /\ \E w \in K8sWorlds :
         LET r == K8sRun(opts, w)
         IN /\ met' = [met EXCEPT !.k8s = w]
            /\ errs' = [errs EXCEPT !.k8s = r.err]
            /\ conns' = [conns EXCEPT !.k8s = K8sClient(w)]
            /\ parts' = [parts EXCEPT !.k8s = r.results]
            /\ results' = results \o r.results
    /\ calls' = Append(calls, "k8s")
    /\ pc' = "all_docker"
    /\ UNCHANGED <<pipelineVars,
                   opts, target, failOnWarn, exit, shown, filterVars, ruleVars, reportVars>>

AllDocker_prepends ==
    /\ pc = "all_docker"
    /\ \E w \in DockerWorlds :
         LET r == DockerRun(opts, w)
         IN /\ met' = [met EXCEPT !.docker = w]
            /\ errs' = [errs EXCEPT !.docker = r.err]
            /\ conns' = [conns EXCEPT !.docker = DockerClient(w)]
            /\ parts' = [parts EXCEPT !.docker = r.results]
            /\ results' = r.results \o results
    /\ calls' = Append(calls, "docker")
    /\ pc' = "all_files"
    /\ UNCHANGED <<pipelineVars,
                   opts, target, failOnWarn, exit, shown, filterVars, ruleVars, reportVars>>

AllDocker ==
    /\ pc = "all_docker"
    /\ \E w \in DockerWorlds :
         LET r == DockerRun(opts, w)
         IN /\ met' = [met EXCEPT !.docker = w]
            /\ errs' = [errs EXCEPT !.docker = r.err]
            /\ conns' = [conns EXCEPT !.docker = DockerClient(w)]
            /\ parts' = [parts EXCEPT !.docker = r.results]
            /\ results' = results \o r.results
    /\ calls' = Append(calls, "docker")
    /\ pc' = "all_files"
    /\ UNCHANGED <<pipelineVars,
                   opts, target, failOnWarn, exit, shown, filterVars, ruleVars, reportVars>>

AllFiles ==
    /\ pc = "all_files"
    /\ \E tree \in FileTrees :
         LET r == FileRun(opts, WalkEntries(opts.Path, tree))
         IN /\ met' = [met EXCEPT !.files = tree]
            /\ errs' = [errs EXCEPT !.files = r.err]
            /\ conns' = conns
            /\ parts' = [parts EXCEPT !.files = r.results]
            /\ results' = results \o r.results
    /\ calls' = Append(calls, "files")
    /\ pc' = "checked"
    /\ UNCHANGED <<pipelineVars,
                   opts, target, failOnWarn, exit, shown, filterVars, ruleVars, reportVars>>

\* default: unknown target
UnknownTarget ==
    /\ pc = "start"
    /\ target \notin {"k8s", "kubernetes", "docker", "files", "file", "all"}
    /\ pc' = "done"
    /\ exit' = "error"
    /\ UNCHANGED <<pipelineVars,
                   opts, target, failOnWarn, calls, met, errs, conns, parts, results, shown,
                   filterVars, ruleVars, reportVars>>

\* displayResults(results) and the exit status
Finish ==
    /\ pc = "checked"
    /\ shown' = displayResults(results)
    /\ exit' = IF hasErrors(results) \/ (failOnWarn /\ hasWarnings(results))
               THEN "error" ELSE "ok"
    /\ pc' = "done"
    /\ UNCHANGED <<pipelineVars, opts, target, failOnWarn, calls, met, errs, conns, parts, results,
                   filterVars, ruleVars, reportVars>>

Next ==
    \/ CheckK8s \/ CheckDocker \/ CheckFiles
    \/ AllK8s \/ AllDocker \/ AllFiles
    \/ UnknownTarget \/ Finish

Spec == Init /\ [][Next]_vars

----------------------------------------------------------------------------
(* Check command claims *)

\* C5: the final result list of a run, for every target, holds no result
\* whose rule_id is in the skip-list, none outside a non-empty only-list and
\* none below the minimum severity, whichever checker emitted it.
C5_MergedListFiltered ==
    (pc \in {"checked", "done"} /\ calls # <<>>) =>
        \A i \in 1..Len(results) :
            /\ ~InRules(results[i].rule_id, opts.SkipRules)
            /\ (opts.OnlyRules = <<>> \/ InRules(results[i].rule_id, opts.OnlyRules))
            /\ (opts.MinSeverity = "" \/
                   levels[results[i].severity] >= levels[opts.MinSeverity])

\* C9: two results of a run with the same rule_id carry the same severity,
\* and it is the severity of the catalog entry with that id.
C9_SeverityOfRule ==
    /\ \A i, j \in 1..Len(results) :
          results[i].rule_id = results[j].rule_id => results[i].severity = results[j].severity
    /\ \A i \in 1..Len(results) :
          \E k \in 1..Len(GetBuiltinPolicies) :
             /\ GetBuiltinPolicies[k].id = results[i].rule_id
             /\ GetBuiltinPolicies[k].severity = results[i].severity

\* C10: with target "all" the checkers are invoked in the order cluster,
\* runtime, files and the merged list is the concatenation of their result
\* lists in that order.
C10_AllOrder ==
    target = "all" =>
        /\ calls = SubSeq(<<"k8s", "docker", "files">>, 1, Len(calls))
        /\ pc = "all_docker" => calls = <<"k8s">> /\ results = parts.k8s
        /\ pc = "all_files" => calls = <<"k8s", "docker">> /\ results = parts.k8s \o parts.docker
        /\ pc \in {"checked", "done"} =>
              /\ calls = <<"k8s", "docker", "files">>
              /\ results = parts.k8s \o parts.docker \o parts.files

C10_Witness ==
    /\ target = "all" /\ pc = "done"
    /\ parts.k8s # <<>> /\ parts.docker # <<>>
    /\ results = parts.k8s \o parts.docker \o parts.files
    /\ parts.k8s # parts.docker

----------------------------------------------------------------------------
(* Failure policy claims *)

Called(checker) == \E i \in 1..Len(calls) : calls[i] = checker

\* the daemon does not answer: the client is built from the environment
\* without a connection, then every request to the daemon fails
RuntimeUnreachable(w) == w.client /\ w.listErr /\ w.imageErr

\* C11: when the container runtime cannot be reached, so that the container
\* list cannot be obtained, DockerChecker.Run returns an error and no
\* results, not an empty successful result.
C11_RuntimeFailureIsError ==
    (Called("docker") /\ RuntimeUnreachable(met.docker)) =>
        errs.docker /\ parts.docker = <<>>

\* the rules each sub-check of K8sChecker.Run evaluates, in the order it calls them
SubCheckOrder == <<"pod", "container", "resource", "network", "rbac">>

SubCheckRules ==
    [pod |-> {"K8S-SEC-001", "K8S-SEC-002", "K8S-SEC-003", "K8S-SEC-004", "K8S-SEC-005"},
     container |-> {"K8S-IMG-001", "K8S-IMG-002", "K8S-PROBE-001", "K8S-PROBE-002"},
     resource |-> {"K8S-RES-001", "K8S-RES-002", "K8S-RES-003", "K8S-RES-004"},
     network |-> {"K8S-NET-001"},
     rbac |-> {"K8S-RBAC-001"}]

\* what sub-check s finds in the cluster w when its query succeeds
SubCheckResults(o, w, s) ==
    CASE s = "pod" -> checkPodSecurity(PodsOf(o, w.pods))
      [] s = "container" -> checkContainers(PodsOf(o, w.pods))
      [] s = "resource" -> checkResourceLimits(PodsOf(o, w.pods))
      [] s = "network" -> checkNetworkPolicies(o, w.namespaces)
      [] s = "rbac" -> checkRBAC(w.bindings)

IsRuleOf(r, s) == r.rule_id \in SubCheckRules[s]

OfSubCheck(rs, s) == SelectSeq(rs, LAMBDA r : IsRuleOf(r, s))

RankOf(r) == CHOOSE k \in 1..Len(SubCheckOrder) : IsRuleOf(r, SubCheckOrder[k])

\* C13: when the client is built and the query of some of the five
\* sub-checks fails, K8sChecker.Run returns no error; its list holds, for
\* every sub-check whose query succeeded, exactly that sub-check's results
\* (pruned by the run's filter options), nothing for a failed sub-check, and
\* the sub-checks' results follow each other in sub-check order.
C13_PartialFailure ==
    (Called("k8s") /\ met.k8s.config) =>
        /\ ~errs.k8s
        /\ \A s \in SubChecks :
              OfSubCheck(parts.k8s, s) =
                 IF s \in met.k8s.fail THEN <<>>
                 ELSE filterResults(opts, SubCheckResults(opts, met.k8s, s))
        /\ \A i, j \in 1..Len(parts.k8s) :
              i < j => RankOf(parts.k8s[i]) <= RankOf(parts.k8s[j])
        /\ (target # "all" /\ pc = "done") =>
              /\ results = parts.k8s
              /\ (exit = "error") = (hasErrors(results) \/ (failOnWarn /\ hasWarnings(results)))

C13_Witness ==
    /\ target = "k8s" /\ pc = "done"
    /\ met.k8s.config /\ met.k8s.fail = {"container"}
    /\ ~errs.k8s
    /\ OfSubCheck(parts.k8s, "pod") # <<>>
    /\ OfSubCheck(parts.k8s, "resource") # <<>>
    /\ OfSubCheck(parts.k8s, "network") # <<>>
    /\ results = parts.k8s

\* the cluster cannot be used: no client can be set up for it (initClient
\* fails), or the client is built and every query to the API server fails
ClusterUnreachable(w) == ~w.config \/ w.fail = SubChecks

Broken(f) ==
    ~f.walkErr /\ ~f.isDir /\ (~f.readable \/ (f.ext \in {".yaml", ".yml"} /\ ~f.yamlOk))

\* C21: an unreadable or unparseable file contributes no result and raises
\* no error: FileChecker.Run returns no error and its list is the list it
\* returns for the same walk without those files, so the files visited
\* before and after them keep all their results, in walk order.
C21_BrokenFilesSkipped ==
    Called("files") =>
        LET entries == WalkEntries(opts.Path, met.files)
        IN /\ ~errs.files
           /\ parts.files = FileRun(opts, SelectSeq(entries, LAMBDA f : ~Broken(f))).results
           /\ \A i \in 1..Len(parts.files) :
                 \A k \in 1..Len(entries) :
                    Broken(entries[k]) => parts.files[i].resource # entries[k].path

C21_Witness ==
    /\ target = "files" /\ pc = "done" /\ ~errs.files /\ exit # "none"
    /\ \E k \in 2..(Len(met.files) - 1) : Broken(met.files[k]) /\ ~met.files[k].yamlOk
    /\ \E k \in 2..(Len(met.files) - 1) : Broken(met.files[k]) /\ ~met.files[k].readable
    /\ \E i, j \in 1..Len(results) :
          /\ i < j
          /\ results[i].resource = <<"Dockerfile">>
          /\ results[j].resource = <<"deploy.yaml">>

\* the run asked for a known target and no checker it called returned an error
NoCheckerError ==
    /\ target \in {"k8s", "kubernetes", "docker", "files", "file", "all"}
    /\ ~errs.k8s /\ ~errs.docker /\ ~errs.files

\* C23: a check run whose checkers returned no error ends with a non-zero
\* status exactly when its final list holds a failed result of severity
\* critical or high, or holds any failed result while fail-on-warn is set;
\* passed and skipped results never cause a non-zero status.
C23_ExitStatus ==
    (pc = "done" /\ NoCheckerError) =>
        /\ exit \in {"ok", "error"}
        /\ (exit = "error") =
              \/ \E i \in 1..Len(results) :
                    /\ results[i].status = StatusFailed
                    /\ results[i].severity \in {"critical", "high"}
              \/ /\ failOnWarn
                 /\ \E i \in 1..Len(results) : results[i].status = StatusFailed
        /\ (\A i \in 1..Len(results) : results[i].status # StatusFailed) => exit = "ok"

\* a run that fails on warnings only: no critical or high failure, a passed result
C23_Witness ==
    /\ pc = "done" /\ NoCheckerError /\ failOnWarn /\ exit = "error"
    /\ \A i \in 1..Len(results) :
          results[i].status = StatusFailed => results[i].severity \in {"medium", "low"}
    /\ \E i \in 1..Len(results) : results[i].status = StatusPassed

C12_AllFailurePolicy ==
    target = "all" =>
        /\ (Called("docker") /\ (~met.docker.client \/ RuntimeUnreachable(met.docker))) =>
              pc = "done" /\ exit = "error" /\ ~Called("files")
        /\ (pc \in {"checked", "done"} /\ ~met.k8s.config) =>
              parts.k8s = <<>> /\ Called("docker") /\ Called("files")

----------------------------------------------------------------------------
(* The report command: runReport from the checkers' list to the summary *)

\* the list the checkers returned; its statuses are the three the summary counts
ReportPool ==
    {CheckResult("K8S-SEC-001", "Kubernetes Security", "critical", st, <<"default", "/", "web">>) :
        st \in {StatusPassed, StatusFailed, StatusSkipped}}
    \cup
    {CheckResult("DOCKER-RES-001", "Docker Resources", "medium", st, <<"db">>) :
        st \in {StatusPassed, StatusFailed, StatusSkipped}}

InitReport ==
    /\ pc = "report"
    /\ returned \in SeqsUpTo(ReportPool, MaxLen)
    /\ results = returned
    /\ includePassed \in BOOLEAN
    /\ report = NoReport /\ junit = NoJUnit
    /\ opts = CheckOptions("", <<>>, "", <<>>, <<>>, "")
    /\ target = "all" /\ failOnWarn = FALSE /\ calls = <<>> /\ parts = NoParts
    /\ met = NoMet /\ errs = NoErrs /\ conns = NoConns
    /\ remote = "" /\ waiting = NoWaiting
    /\ exit = "none" /\ shown = NoShown
    /\ input = <<>> /\ once = <<>> /\ twice = <<>> /\ emitted = <<>> /\ given = NoGiven

BuildReport_summaryFirst ==
    /\ pc = "report"
    /\ LET rs == IF includePassed THEN results
                 ELSE SelectSeq(results, LAMBDA r : r.status # StatusPassed)
       IN /\ results' = rs
          /\ report' = Summary(results)
    /\ pc' = "built"
    /\ UNCHANGED <<pipelineVars,
                   opts, target, failOnWarn, calls, met, errs, conns, parts, exit, shown,
                   includePassed, returned, junit, filterVars, ruleVars>>

\* "Filter results", "Generate report", "Calculate summary"
BuildReport ==
    /\ pc = "report"
    /\ LET rs == IF includePassed THEN results
                 ELSE SelectSeq(results, LAMBDA r : r.status # StatusPassed)
       IN /\ results' = rs
          /\ report' = Summary(rs)
    /\ pc' = "built"
    /\ UNCHANGED <<pipelineVars,
                   opts, target, failOnWarn, calls, met, errs, conns, parts, exit, shown,
                   includePassed, returned, junit, filterVars, ruleVars>>

\* case "junit": generateJUnitReport(report); order is the order in which the
\* range over the byCategory map yields the categories
RenderJUnit ==
    /\ pc = "built"
    /\ \E order \in Orders(Categories(results)) :
          junit' = generateJUnitReport(report, results, order)
    /\ pc' = "rendered"
    /\ UNCHANGED <<pipelineVars, opts, results, includePassed, returned, report, runVarsButResults,
                   filterVars, ruleVars>>

NextReport == BuildReport \/ RenderJUnit

SpecReport == InitReport /\ [][NextReport]_vars

\* C6: summary.total equals the number of results in the report and
\* passed + failed + skipped equals total.
C6_SummaryCounts ==
    pc = "built" =>
        /\ report.Total = Len(results)
        /\ report.Passed + report.Failed + report.Skipped = report.Total

C6_Witness ==
    /\ pc = "built"
    /\ report.Passed > 0 /\ report.Failed > 0 /\ report.Skipped > 0
    /\ report.Total = MaxLen

C28_PassedRemoved ==
    (pc \in {"built", "rendered"} /\ ~includePassed) =>
        /\ results = SelectSeq(returned, LAMBDA r : r.status # StatusPassed)
        /\ \A i \in 1..Len(results) : results[i].status # StatusPassed
        /\ report.Passed = 0
        /\ report.Total = Len(results)
        /\ report.Total = Len(returned) - Count(returned, StatusPassed)
        /\ (\E i \in 1..Len(results) : results[i].status # StatusSkipped) =>
              ~report.Score.nan /\ report.Score.milli = 0

C28_Witness ==
    /\ pc = "built" /\ ~includePassed
    /\ Count(returned, StatusPassed) = 2
    /\ Len(results) = 1 /\ results[1].status = StatusFailed
    /\ report.Passed = 0 /\ report.Total = 1 /\ report.Score.milli = 0

RECURSIVE SumOf(_, _)
SumOf(suites, field) ==
    IF suites = <<>> THEN 0 ELSE Head(suites)[field] + SumOf(Tail(suites), field)

\* C22: in the JUnit document the top-level tests attribute equals
\* summary.total and the top-level failures attribute equals summary.failed;
\* there is one testsuite per distinct category, each result is exactly one
\* testcase in the suite of its category, and the suites' tests and failures
\* attributes sum to the top-level values.
C22_JUnitCounts ==
    pc = "rendered" =>
        /\ junit.tests = report.Total /\ junit.failures = report.Failed
        /\ junit.tests = Len(results)
        /\ Len(junit.suites) = Cardinality(Categories(results))
        /\ \A c \in Categories(results) :
              Cardinality({k \in 1..Len(junit.suites) : junit.suites[k].name = c}) = 1
        /\ \A k \in 1..Len(junit.suites) :
              LET suite == junit.suites[k]
                  mine == SelectSeq(results, LAMBDA r : r.category = suite.name)
              IN /\ suite.tests = Len(suite.testcases)
                 /\ Len(suite.testcases) = Len(mine)
                 /\ \A i \in 1..Len(mine) :
                       /\ suite.testcases[i].name = mine[i].rule_id
                       /\ suite.testcases[i].classname = mine[i].resource
                 /\ suite.failures =
                       Cardinality({i \in 1..Len(suite.testcases) :
                                       suite.testcases[i].child = "failure"})
        /\ SumOf(junit.suites, "tests") = junit.tests
        /\ SumOf(junit.suites, "failures") = junit.failures

C22_Witness ==
    /\ pc = "rendered"
    /\ Len(junit.suites) = 2
    /\ junit.tests = MaxLen /\ junit.failures = 1
    /\ report.Skipped = 1 /\ report.Passed = 1
    /\ junit.suites[1].name = "Docker Resources"

----------------------------------------------------------------------------
(* Catalog claims *)

CatalogEntries(id) ==
    {k \in 1..Len(GetBuiltinPolicies) : GetBuiltinPolicies[k].id = id}

\* C8: every rule_id a checker emits has exactly one entry with that id in
\* the list returned by GetBuiltinPolicies.
C8_CatalogComplete ==
    \A i \in 1..Len(emitted) : Cardinality(CatalogEntries(emitted[i].rule_id)) = 1

----------------------------------------------------------------------------
(* Rule emission claims *)

WithRule(rs, id) == SelectSeq(rs, LAMBDA r : r.rule_id = id)

\* the containers of the pods handed to a cluster sub-check, in the order visited
ContainersOf(pods) == Flatten([i \in 1..Len(pods) |-> pods[i].containers])

PodChecks == {"checkPodSecurity", "checkContainers", "checkResourceLimits"}

\* C15: among the cluster checker's per-container and per-pod rules only
\* K8S-SEC-001 emits status passed: checkPodSecurity emits exactly one
\* K8S-SEC-001 result for every container, and every other per-container or
\* per-pod result has status failed.
C15_OnlyPrivilegedPasses ==
    (pc = "emitted" /\ given.check \in PodChecks) =>
        /\ given.check = "checkPodSecurity" =>
              Len(WithRule(emitted, "K8S-SEC-001")) = Len(ContainersOf(given.arg))
        /\ \A i \in 1..Len(emitted) :
              emitted[i].rule_id # "K8S-SEC-001" => emitted[i].status = StatusFailed

\* C15 (amended): the privileged rule K8S-SEC-001 and the pull-policy rule
\* K8S-IMG-002 are the only per-container or per-pod rules that emit status
\* passed. checkPodSecurity emits exactly one K8S-SEC-001 result for every
\* container, failed if the container is privileged and passed otherwise;
\* checkContainers emits one K8S-IMG-002 result, always passed, for every
\* container whose pull policy is Always; every other result is failed.
C15_PassedRules ==
    (pc = "emitted" /\ given.check \in PodChecks) =>
        LET cs == ContainersOf(given.arg)
            sec == WithRule(emitted, "K8S-SEC-001")
            pull == WithRule(emitted, "K8S-IMG-002")
        IN /\ given.check = "checkPodSecurity" =>
                 /\ Len(sec) = Len(cs)
                 /\ \A k \in 1..Len(sec) :
                       sec[k].status = IF IsTrue(cs[k].securityContext, "privileged")
                                       THEN StatusFailed ELSE StatusPassed
           /\ given.check = "checkContainers" =>
                 Len(pull) = Cardinality({k \in 1..Len(cs) : cs[k].pullAlways})
           /\ \A i \in 1..Len(pull) : pull[i].status = StatusPassed
           /\ \A i \in 1..Len(emitted) :
                 emitted[i].rule_id \notin {"K8S-SEC-001", "K8S-IMG-002"} =>
                    emitted[i].status = StatusFailed

C15_Witness ==
    /\ pc = "emitted" /\ given.check = "checkContainers"
    /\ \E i, j \in 1..Len(emitted) :
          /\ emitted[i].rule_id = "K8S-IMG-002" /\ emitted[i].status = StatusPassed
          /\ emitted[j].rule_id = "K8S-PROBE-001" /\ emitted[j].status = StatusFailed

\* the namespaces of a list that are not system namespaces and match the filter
Eligible(o, namespaces) ==
    SelectSeq(namespaces, LAMBDA ns : /\ ns.name \notin SystemNamespaces
                                      /\ (o.Namespace = "" \/ ns.name = o.Namespace))

C17_FailureOnly ==
    (pc = "emitted" /\ given.check = "checkContainerSecurity") =>
        /\ \A i \in 1..Len(emitted) : emitted[i].status = StatusFailed
        /\ given.arg = <<GoodDockerContainer>> => emitted = <<>>

\* C17 (amended): the runtime checker is failure-only but for the privileged
\* rule: for every inspected container it emits exactly one DOCKER-SEC-001
\* result, failed if the container is privileged and passed otherwise; every
\* other result has status failed, so a container that violates no rule
\* contributes that one passed result and nothing else.
C17_FailureOnlyButPrivileged ==
    (pc = "emitted" /\ given.check = "checkContainerSecurity") =>
        LET cs == SelectSeq(given.arg, LAMBDA c : ~c.inspectErr)
            sec == WithRule(emitted, "DOCKER-SEC-001")
        IN /\ Len(sec) = Len(cs)
           /\ \A k \in 1..Len(sec) :
                 /\ sec[k].resource = <<cs[k].name>>
                 /\ sec[k].status = IF cs[k].privileged THEN StatusFailed ELSE StatusPassed
           /\ \A i \in 1..Len(emitted) :
                 emitted[i].rule_id # "DOCKER-SEC-001" => emitted[i].status = StatusFailed
           /\ given.arg = <<GoodDockerContainer>> =>
                 emitted = <<CheckResult("DOCKER-SEC-001", "Docker Security", "critical",
                                         StatusPassed, <<"web">>)>>

C17_Witness ==
    /\ pc = "emitted" /\ given.check = "checkContainerSecurity"
    /\ given.arg = <<GoodDockerContainer>>
    /\ Len(emitted) = 1 /\ emitted[1].status = StatusPassed

----------------------------------------------------------------------------
(* Scenario claims *)

\* the list rs holds exactly one result of rule id with that severity and status
OneFinding(rs, id, sev, st) ==
    Cardinality({i \in 1..Len(rs) : /\ rs[i].rule_id = id /\ rs[i].severity = sev
                                     /\ rs[i].status = st}) = 1

\* a manifest of a checked kind whose pod spec has one container with image
\* myapp:latest, no resources block, no security context, no liveness probe
ScenarioA(m) ==
    /\ m.kind \in {"Deployment", "Pod", "StatefulSet", "DaemonSet"}
    /\ ~m.spec.nil /\ ~PodSpecOf(m).nil
    /\ PodSpecOf(m).containers = << [image |-> Latest, resources |-> "nil",
                                     securityContext |-> FALSE, livenessProbe |-> FALSE] >>

\* C18: Scenario A yields exactly 4 results, all failed: FILE-K8S-001
\* (medium), FILE-K8S-002 (medium), FILE-K8S-003 (high), FILE-K8S-004 (medium).
C18_ScenarioA ==
    (pc = "emitted" /\ given.check = "checkKubernetesManifest" /\ ScenarioA(given.arg[1])) =>
        /\ Len(emitted) = 4
        /\ OneFinding(emitted, "FILE-K8S-001", "medium", StatusFailed)
        /\ OneFinding(emitted, "FILE-K8S-002", "medium", StatusFailed)
        /\ OneFinding(emitted, "FILE-K8S-003", "high", StatusFailed)
        /\ OneFinding(emitted, "FILE-K8S-004", "medium", StatusFailed)

C18_Witness ==
    /\ pc = "emitted" /\ given.check = "checkKubernetesManifest"
    /\ ScenarioA(given.arg[1]) /\ given.arg[1].kind = "Deployment"
    /\ ~given.arg[1].template.nil
    /\ Len(emitted) = 4

BaseUbuntu2204 == <<"FROM", " ", "ubuntu", ":", "22.04">>

\* a build file whose base image is ubuntu:22.04, with no USER line, no
\* HEALTHCHECK line, no ADD line and no download (curl, wget) line
ScenarioB(ls) ==
    /\ \E i \in 1..Len(ls) : ls[i] = BaseUbuntu2204
    /\ \A i \in 1..Len(ls) :
          /\ HasInstr(TrimSpace(ls[i]), "FROM") => ls[i] = BaseUbuntu2204
          /\ ~HasInstr(TrimSpace(ls[i]), "USER")
          /\ ~HasInstr(TrimSpace(ls[i]), "HEALTHCHECK")
          /\ ~HasInstr(TrimSpace(ls[i]), "ADD")
          /\ ~ContainsToken(ls[i], "curl") /\ ~ContainsToken(ls[i], "wget")

\* C19: Scenario B yields exactly 2 results, FILE-DOCKER-003 (high) and
\* FILE-DOCKER-004 (medium), and no FILE-DOCKER-005 result.
C19_ScenarioB ==
    (pc = "emitted" /\ given.check = "checkDockerfile" /\ ScenarioB(given.arg)) =>
        /\ Len(emitted) = 2
        /\ OneFinding(emitted, "FILE-DOCKER-003", "high", StatusFailed)
        /\ OneFinding(emitted, "FILE-DOCKER-004", "medium", StatusFailed)
        /\ WithRule(emitted, "FILE-DOCKER-005") = <<>>

C19_Witness ==
    /\ pc = "emitted" /\ given.check = "checkDockerfile"
    /\ given.arg = <<BaseUbuntu2204, <<"COPY", " ", "src", " ", "/app">> >>
    /\ ScenarioB(given.arg)
    /\ Len(emitted) = 2

\* a compose file with one service: privileged: true, network_mode: host,
\* image redis without a tag, neither a restart key nor a deploy block
ScenarioD(ss) ==
    ss = << [privileged |-> "true", network_mode |-> "host", restart |-> FALSE,
             deploy |-> FALSE, hasImage |-> TRUE, image |-> NoTag] >>

\* C20: Scenario D yields exactly 4 results for the service:
\* FILE-COMPOSE-001 (critical), FILE-COMPOSE-002 (high), FILE-COMPOSE-004
\* (medium) and FILE-COMPOSE-003 (low).
C20_ScenarioD ==
    (pc = "emitted" /\ given.check = "checkDockerCompose" /\ ScenarioD(given.arg)) =>
        /\ Len(emitted) = 4
        /\ OneFinding(emitted, "FILE-COMPOSE-001", "critical", StatusFailed)
        /\ OneFinding(emitted, "FILE-COMPOSE-002", "high", StatusFailed)
        /\ OneFinding(emitted, "FILE-COMPOSE-004", "medium", StatusFailed)
        /\ OneFinding(emitted, "FILE-COMPOSE-003", "low", StatusFailed)

C20_Witness ==
    /\ pc = "emitted" /\ given.check = "checkDockerCompose"
    /\ ScenarioD(given.arg)
    /\ Len(emitted) = 4

----------------------------------------------------------------------------
(* Build-file rule claims *)

\* a USER directive whose user is neither root nor uid 0
NamesNonRootUser(line) ==
    LET l == TrimSpace(line)
    IN HasInstr(l, "USER") /\ Len(l) >= 3 /\ l[3] \notin {"root", "0"}

\* C25: FILE-DOCKER-003 (high) is emitted for a build file exactly when the
\* file has no USER directive naming a non-root user; a file whose only USER
\* directive is USER root or USER 0 still gets the finding.
C25_NonRootUser ==
    (pc = "emitted" /\ given.check = "checkDockerfile") =>
        LET found == WithRule(emitted, "FILE-DOCKER-003")
        IN /\ (found # <<>>) = (\A i \in 1..Len(given.arg) : ~NamesNonRootUser(given.arg[i]))
           /\ \A i \in 1..Len(found) : found[i].severity = "high"

LinesWhere(ls, Cond(_)) == Cardinality({i \in 1..Len(ls) : Cond(ls[i])})

\* an ADD instruction that copies local files: no URL, no tar archive
IsLocalAdd(line) ==
    /\ HasInstr(TrimSpace(line), "ADD")
    /\ ~ContainsToken(line, "http") /\ ~ContainsToken(line, ".tar")

MentionsDownload(line) == ContainsToken(line, "curl") \/ ContainsToken(line, "wget")

LacksCleanup(line) == ~ContainsToken(line, "&&") \/ ~ContainsToken(line, "rm")

\* a RUN instruction that downloads with curl or wget
IsDownloadInstruction(line) == HasInstr(TrimSpace(line), "RUN") /\ MentionsDownload(line)

AtMostOncePerFile ==
    /\ Len(WithRule(emitted, "FILE-DOCKER-003")) <= 1
    /\ Len(WithRule(emitted, "FILE-DOCKER-004")) <= 1
    /\ Len(WithRule(emitted, "FILE-DOCKER-005")) <= 1

\* C26: for one build file FILE-DOCKER-003, 004 and 005 are each emitted at
\* most once, FILE-DOCKER-001 once per ADD line that copies local files, and
\* FILE-DOCKER-002 once per remote-download instruction line that lacks a
\* same-layer cleanup step, and for no other line.
C26_BuildFileCounts ==
    (pc = "emitted" /\ given.check = "checkDockerfile") =>
        /\ AtMostOncePerFile
        /\ Len(WithRule(emitted, "FILE-DOCKER-001")) = LinesWhere(given.arg, IsLocalAdd)
        /\ Len(WithRule(emitted, "FILE-DOCKER-002")) =
              LinesWhere(given.arg, LAMBDA l : IsDownloadInstruction(l) /\ LacksCleanup(l))

\* C26 (amended): for one build file FILE-DOCKER-003, 004 and 005 are each
\* emitted at most once, FILE-DOCKER-001 once per ADD line that copies local
\* files, and FILE-DOCKER-002 once per line of any kind (instruction or
\* comment) whose text holds "curl" or "wget" and lacks "&&" or "rm".
C26_TextualCounts ==
    (pc = "emitted" /\ given.check = "checkDockerfile") =>
        /\ AtMostOncePerFile
        /\ Len(WithRule(emitted, "FILE-DOCKER-001")) = LinesWhere(given.arg, IsLocalAdd)
        /\ Len(WithRule(emitted, "FILE-DOCKER-002")) =
              LinesWhere(given.arg, LAMBDA l : MentionsDownload(l) /\ LacksCleanup(l))
        /\ Len(emitted) = Len(WithRule(emitted, "FILE-DOCKER-001"))
                         + Len(WithRule(emitted, "FILE-DOCKER-002"))
                         + Len(WithRule(emitted, "FILE-DOCKER-003"))
                         + Len(WithRule(emitted, "FILE-DOCKER-004"))
                         + Len(WithRule(emitted, "FILE-DOCKER-005"))

C26_Witness ==
    /\ pc = "emitted" /\ given.check = "checkDockerfile"
    /\ given.arg = << <<"#", " ", "install", " ", "curl">>, <<"RUN", " ", "curl", " ", "url">> >>
    /\ Len(WithRule(emitted, "FILE-DOCKER-002")) = 2
    /\ Len(WithRule(emitted, "FILE-DOCKER-003")) = 1
    /\ Len(emitted) = 4

----------------------------------------------------------------------------
(* The pipeline trigger command: runTrigger and Client.WaitForPipeline *)

\* the statuses the server reports for a pipeline
PipelineStatuses == {"created", "pending", "running", "manual", "scheduled",
                     "success", "failed", "canceled", "skipped"}

\* the statuses the server never leaves
FinalStatuses == {"success", "failed", "canceled", "skipped"}

IsFinished_manualToo(status) == status \in {"success", "failed", "canceled", "skipped", "manual"}

\* the switch of WaitForPipeline: case "success", "failed", "canceled", "skipped"
IsFinished(status) == status \in {"success", "failed", "canceled", "skipped"}

\* the message runTrigger prints for the pipeline WaitForPipeline returned
FinalMessage(status) ==
    IF status \in {"success", "passed"} THEN "Pipeline completed successfully"
    ELSE IF status = "failed" THEN "Pipeline failed"
    ELSE "Pipeline ended with status"

\* the state after TriggerPipeline returned the created pipeline
InitTrigger ==
    /\ pc = "triggered"
    /\ remote \in {"created", "pending", "running", "manual", "skipped"}
    /\ waiting \in {[NoWaiting EXCEPT !.wait = w] : w \in BOOLEAN}
    /\ opts = CheckOptions("", <<>>, "", <<>>, <<>>, "")
    /\ target = "" /\ failOnWarn = FALSE /\ calls = <<>> /\ parts = NoParts
    /\ met = NoMet /\ errs = NoErrs /\ conns = NoConns
    /\ results = <<>> /\ exit = "none" /\ shown = NoShown
    /\ input = <<>> /\ once = <<>> /\ twice = <<>> /\ emitted = <<>> /\ given = NoGiven
    /\ includePassed = TRUE /\ report = NoReport /\ returned = <<>> /\ junit = NoJUnit

\* if wait is false runTrigger returns nil
NoWait ==
    /\ pc = "triggered" /\ ~waiting.wait
    /\ pc' = "done"
    /\ exit' = "ok"
    /\ UNCHANGED <<remote, waiting, opts, runVarsButExit, filterVars, ruleVars, reportVars>>

\* if wait: the call of client.WaitForPipeline
StartWait ==
    /\ pc = "triggered" /\ waiting.wait
    /\ pc' = "polling"
    /\ UNCHANGED <<remote, waiting, opts, runVars, filterVars, ruleVars, reportVars>>

\* one turn of the for loop up to its return or its time.Sleep: GetPipeline
\* fails, or answers with the status the server holds
GetPipeline ==
    /\ pc = "polling"
    /\ \E failed \in BOOLEAN :
         LET counted == [waiting EXCEPT
                            !.polls = IF @ < MaxPolls THEN @ + 1 ELSE @]
         IN IF failed
            THEN /\ waiting' = [counted EXCEPT !.err = TRUE]
                 /\ pc' = "returned"
            ELSE IF IsFinished(remote)
            THEN /\ waiting' = [counted EXCEPT !.status = remote]
                 /\ pc' = "returned"
            ELSE /\ waiting' = counted
                 /\ pc' = "sleeping"
    /\ UNCHANGED <<remote, opts, runVars, filterVars, ruleVars, reportVars>>

\* time.Sleep(5 * time.Second)
Sleep ==
    /\ pc = "sleeping"
    /\ pc' = "polling"
    /\ UNCHANGED <<remote, waiting, opts, runVars, filterVars, ruleVars, reportVars>>

\* runTrigger after WaitForPipeline: the error is returned, a pipeline is
\* reported by its status and runTrigger returns nil
ShowFinal ==
    /\ pc = "returned"
    /\ waiting' = [waiting EXCEPT
                      !.outcome = IF waiting.err THEN "Error waiting for pipeline"
                                  ELSE FinalMessage(waiting.status)]
    /\ exit' = IF waiting.err THEN "error" ELSE "ok"
    /\ pc' = "done"
    /\ UNCHANGED <<remote, opts, runVarsButExit, filterVars, ruleVars, reportVars>>

\* the server moves the pipeline while the command waits; a final status stays
PipelineMoves ==
    /\ pc \in {"polling", "sleeping"}
    /\ remote \notin FinalStatuses
    /\ \E s \in PipelineStatuses \ {remote} : remote' = s
    /\ UNCHANGED <<pc, waiting, opts, runVars, filterVars, ruleVars, reportVars>>

NextTrigger == NoWait \/ StartWait \/ GetPipeline \/ Sleep \/ ShowFinal \/ PipelineMoves

SpecTrigger == InitTrigger /\ [][NextTrigger]_vars

\* the loop is sequential code: a status query answers or fails, and the
\* sleep ends after five seconds
SpecTriggerFair ==
    SpecTrigger /\ WF_vars(StartWait) /\ WF_vars(GetPipeline) /\ WF_vars(Sleep)

----------------------------------------------------------------------------
(* Wait loop claims *)

\* what holds once WaitForPipeline has returned
WaitReturned ==
    pc \in {"returned", "done"} /\ waiting.wait =>
        /\ waiting.polls >= 1
        /\ \/ waiting.err /\ waiting.status = ""
           \/ /\ ~waiting.err
              /\ waiting.status \in {"success", "failed", "canceled", "skipped"}
              /\ waiting.status = remote

\* what one turn of the loop does: an answer with another status goes on to
\* the sleep and the next query, a failure or one of the four statuses returns
WaitTurn ==
    pc = "polling" /\ pc' # "polling" =>
        /\ pc' = "returned" <=>
              (waiting'.err \/ remote \in {"success", "failed", "canceled", "skipped"})
        /\ pc' = "sleeping" <=>
              (~waiting'.err /\ remote \notin {"success", "failed", "canceled", "skipped"})

\* C30: WaitForPipeline polls the pipeline status repeatedly and returns only
\* with an error as soon as one status query fails, or with a pipeline whose
\* status is one of success, failed, canceled, skipped; it never returns
\* another status, and it returns if the pipeline reaches one of those four
\* statuses.
C30_WaitForPipeline ==
    /\ []WaitReturned
    /\ [][WaitTurn]_vars
    /\ (waiting.wait /\ remote \in {"success", "failed", "canceled", "skipped"})
          ~> (pc \in {"returned", "done"})

C30_Witness ==
    /\ pc = "returned" /\ waiting.wait
    /\ waiting.polls = MaxPolls /\ ~waiting.err
    /\ waiting.status = "canceled" /\ remote = "canceled"

====
